---- MODULE Spec2Model ----
(***************************************************************************)
(* Step graph, configuration-change classifier and background executor of  *)
(* libslic3r/Print.cpp.                                                    *)
(*                                                                         *)
(* The statuses of the job-level steps (PrintState<PrintStep, psCount>)    *)
(* and of the entity-level steps of every PrintObject are the state; the   *)
(* foreground actor applies configuration batches, invalidates steps,      *)
(* clears the job and raises the cancellation signal, while a worker runs  *)
(* Print::process() followed by Print::export_gcode().                     *)
(***************************************************************************)
EXTENDS Integers, Sequences, FiniteSets, TLC

\* Bounds of the model.
MaxObjects == 2        \* PrintObjects held by m_objects
MaxBatch == 2          \* keys in one opt_keys batch
MaxSkirtLoops == 2     \* iterations of the skirt loop of _make_skirt
MaxLength == 3         \* a minimum skirt length; the length one skirt loop extrudes
MaxLayers == 2         \* layers of a tool ordering
MaxVolume == 2         \* an entry of the purge-volume matrix
DistanceSteps == 2     \* the skirt offset distance is followed modulo this many spacings

-----------------------------------------------------------------------------
(* Step statuses and step names.                                           *)

INVALID == "Invalidated"
STARTED == "Started"
DONE == "Done"
StepStates == {INVALID, STARTED, DONE}

psWipeTower == "psWipeTower"
psAlertWhenSupportsNeeded == "psAlertWhenSupportsNeeded"
psSkirtBrim == "psSkirtBrim"
psGCodeExport == "psGCodeExport"

\* The PrintStep enumeration in its declaration order (sort order of
\* sort_remove_duplicates on std::vector<PrintStep>).
PrintStepOrder == <<psWipeTower, psAlertWhenSupportsNeeded, psSkirtBrim, psGCodeExport>>
PrintSteps == {psWipeTower, psAlertWhenSupportsNeeded, psSkirtBrim, psGCodeExport}

posSlice == "posSlice"
posPerimeters == "posPerimeters"
posInfill == "posInfill"
posIroning == "posIroning"
posSupportSpotsSearch == "posSupportSpotsSearch"
posSupportMaterial == "posSupportMaterial"
posEstimateCurledExtrusions == "posEstimateCurledExtrusions"

PrintObjectStepOrder ==
    <<posSlice, posPerimeters, posInfill, posIroning, posSupportSpotsSearch,
      posSupportMaterial, posEstimateCurledExtrusions>>
PrintObjectSteps ==
    {posSlice, posPerimeters, posInfill, posIroning, posSupportSpotsSearch,
     posSupportMaterial, posEstimateCurledExtrusions}

Range(s) == {s[n] : n \in DOMAIN s}

\* sort_remove_duplicates(v): the elements of v, each once, in enum order.
sort_remove_duplicates(v, order) == SelectSeq(order, LAMBDA x : x \in Range(v))

-----------------------------------------------------------------------------
(* PrintState: the guarded status table (interface of PrintBase).          *)

\* PrintState::invalidate: flips one step to Invalidated, tells whether it changed.
StateInvalidate(st, step) ==
    [st |-> [st EXCEPT ![step] = INVALID], changed |-> st[step] # INVALID]

\* PrintState::set_started: false if the step is already Started or Done,
\* otherwise the step becomes Started.
StateSetStarted(st, step) ==
    IF st[step] \in {STARTED, DONE}
    THEN [st |-> st, ok |-> FALSE]
    ELSE [st |-> [st EXCEPT ![step] = STARTED], ok |-> TRUE]

\* PrintState::set_done.
StateSetDone(st, step) == [st EXCEPT ![step] = DONE]

\* Print::invalidate_all_steps() as Print.cpp uses it: every job-level step of
\* the Print becomes Invalidated; the steps of the PrintObjects are left alone
\* ("FIXME invalidate all steps of all objects as well?").
invalidate_all_steps(p) ==
    [p |-> [s \in PrintSteps |-> INVALID],
     changed |-> \E s \in PrintSteps : p[s] # INVALID]

-----------------------------------------------------------------------------
(* Print::invalidate_step and PrintObject::invalidate_step.                *)

\* Mutant of Print_invalidate_step: the propagation to psGCodeExport is lost.
Print_invalidate_step_NoCascade(p, step) ==
    LET r1 == StateInvalidate(p, step)
    IN  [p |-> r1.st, changed |-> r1.changed]

\* Mutant of Print_invalidate_step: the call always reports a change.
Print_invalidate_step_AlwaysChanged(p, step) ==
    LET r1 == StateInvalidate(p, step)
        r2 == IF step # psGCodeExport
              THEN StateInvalidate(r1.st, psGCodeExport)
              ELSE [st |-> r1.st, changed |-> FALSE]
    IN  [p |-> r2.st, changed |-> TRUE]

Print_invalidate_step(p, step) ==
    LET r1 == StateInvalidate(p, step)
        r2 == IF step # psGCodeExport
              THEN StateInvalidate(r1.st, psGCodeExport)
              ELSE [st |-> r1.st, changed |-> FALSE]
    IN  [p |-> r2.st, changed |-> r1.changed \/ r2.changed]

\* PrintObject::invalidate_step on object idx: the entity's own step is
\* invalidated, sibling entities are untouched, and the export step of the job
\* is invalidated with it.
PrintObject_invalidate_step(p, o, idx, ostep) ==
    LET r1 == StateInvalidate(o[idx], ostep)
        r2 == StateInvalidate(p, psGCodeExport)
    IN  [p |-> r2.st, o |-> [o EXCEPT ![idx] = r1.st],
         changed |-> r1.changed \/ r2.changed]

-----------------------------------------------------------------------------
(* Print::invalidate_state_by_config_options.                              *)

steps_gcode ==
    {"autoemit_temperature_commands", "avoid_crossing_perimeters",
     "avoid_crossing_perimeters_max_detour", "bed_shape", "bed_temperature",
     "before_layer_gcode", "between_objects_gcode", "bridge_acceleration",
     "bridge_fan_speed", "enable_dynamic_fan_speeds", "overhang_fan_speed_0",
     "overhang_fan_speed_1", "overhang_fan_speed_2", "overhang_fan_speed_3",
     "colorprint_heights", "cooling", "default_acceleration", "deretract_speed",
     "disable_fan_first_layers", "duplicate_distance", "end_gcode",
     "end_filament_gcode", "external_perimeter_acceleration", "extrusion_axis",
     "extruder_clearance_height", "extruder_clearance_radius", "extruder_colour",
     "extruder_offset", "extrusion_multiplier", "fan_always_on",
     "fan_below_layer_time", "full_fan_speed_layer", "filament_colour",
     "filament_diameter", "filament_density", "filament_notes", "filament_cost",
     "filament_spool_weight", "first_layer_acceleration",
     "first_layer_acceleration_over_raft", "first_layer_bed_temperature",
     "first_layer_speed_over_raft", "gcode_comments", "gcode_label_objects",
     "infill_acceleration", "layer_gcode", "min_fan_speed", "max_fan_speed",
     "max_print_height", "min_print_speed", "max_print_speed",
     "max_volumetric_speed", "max_volumetric_extrusion_rate_slope_positive",
     "max_volumetric_extrusion_rate_slope_negative", "notes",
     "only_retract_when_crossing_perimeters", "output_filename_format",
     "perimeter_acceleration", "post_process", "gcode_substitutions",
     "printer_notes", "retract_before_travel", "retract_before_wipe",
     "retract_layer_change", "retract_length", "retract_length_toolchange",
     "retract_lift", "retract_lift_above", "retract_lift_below",
     "retract_restart_extra", "retract_restart_extra_toolchange", "retract_speed",
     "single_extruder_multi_material_priming", "slowdown_below_layer_time",
     "solid_infill_acceleration", "standby_temperature_delta", "start_gcode",
     "start_filament_gcode", "toolchange_gcode", "top_solid_infill_acceleration",
     "travel_acceleration", "thumbnails", "thumbnails_format",
     "use_firmware_retraction", "use_relative_e_distances", "use_volumetric_e",
     "variable_layer_height", "wipe"}

steps_ignore == {}

keys_skirt_brim ==
    {"skirts", "skirt_height", "draft_shield", "skirt_distance", "min_skirt_length",
     "ooze_prevention", "wipe_tower_x", "wipe_tower_y", "wipe_tower_rotation_angle"}

keys_slice == {"first_layer_height", "nozzle_diameter", "resolution", "spiral_vase"}

keys_wipe_tower ==
    {"complete_objects", "filament_type", "first_layer_temperature",
     "filament_loading_speed", "filament_loading_speed_start",
     "filament_unloading_speed", "filament_unloading_speed_start",
     "filament_toolchange_delay", "filament_cooling_moves",
     "filament_minimal_purge_on_wipe_tower", "filament_cooling_initial_speed",
     "filament_cooling_final_speed", "filament_ramming_parameters",
     "filament_max_volumetric_speed", "gcode_flavor",
     "high_current_on_filament_swap", "infill_first",
     "single_extruder_multi_material", "temperature", "idle_temperature",
     "wipe_tower", "wipe_tower_width", "wipe_tower_brim_width",
     "wipe_tower_cone_angle", "wipe_tower_bridging", "wipe_tower_extra_spacing",
     "wipe_tower_no_sparse_layers", "wiping_volumes_matrix",
     "parking_pos_retraction", "cooling_tube_retraction", "cooling_tube_length",
     "extra_loading_move", "travel_speed", "travel_speed_z", "first_layer_speed",
     "z_offset"}

keys_extrusion ==
    {"first_layer_extrusion_width", "min_layer_height", "max_layer_height",
     "gcode_resolution"}

\* One pass of the loop over opt_keys: what the key appends to `steps` and
\* `osteps`, and whether it takes the fallback branch (invalidate_all_steps).
\* Mutant of ClassifyKey: a G-code-only key is filed under skirt/brim.
ClassifyKey_GcodeAsSkirt(key) ==
    IF key \in steps_gcode \/ key \in keys_skirt_brim
    THEN [steps |-> <<psSkirtBrim>>, osteps |-> <<>>, all |-> FALSE]
    ELSE [steps |-> <<>>, osteps |-> <<>>, all |-> TRUE]

ClassifyKey(key) ==
    IF key \in steps_gcode
    THEN [steps |-> <<psGCodeExport>>, osteps |-> <<>>, all |-> FALSE]
    ELSE IF key \in steps_ignore
    THEN [steps |-> <<>>, osteps |-> <<>>, all |-> FALSE]
    ELSE IF key \in keys_skirt_brim
    THEN [steps |-> <<psSkirtBrim>>, osteps |-> <<>>, all |-> FALSE]
    ELSE IF key \in keys_slice
    THEN [steps |-> <<>>, osteps |-> <<posSlice>>, all |-> FALSE]
    ELSE IF key \in keys_wipe_tower
    THEN [steps |-> <<psWipeTower, psSkirtBrim>>, osteps |-> <<>>, all |-> FALSE]
    ELSE IF key = "filament_soluble"
    THEN [steps |-> <<psWipeTower>>, osteps |-> <<posSupportMaterial>>, all |-> FALSE]
    ELSE IF key \in keys_extrusion
    THEN [steps |-> <<psSkirtBrim>>,
          osteps |-> <<posPerimeters, posInfill, posSupportMaterial>>, all |-> FALSE]
    ELSE IF key = "avoid_crossing_curled_overhangs"
    THEN [steps |-> <<>>, osteps |-> <<posEstimateCurledExtrusions>>, all |-> FALSE]
    ELSE [steps |-> <<>>, osteps |-> <<>>, all |-> TRUE]

\* The loop over opt_keys (Print.cpp:156-245), from key n on.
RECURSIVE ScanKeys(_, _, _)
ScanKeys(acc, keys, n) ==
    IF n > Len(keys) THEN acc
    ELSE LET c == ClassifyKey(keys[n])
             r == IF c.all THEN invalidate_all_steps(acc.p)
                  ELSE [p |-> acc.p, changed |-> FALSE]
         IN  ScanKeys([p |-> r.p,
                       invalidated |-> acc.invalidated \/ r.changed,
                       steps |-> acc.steps \o c.steps,
                       osteps |-> acc.osteps \o c.osteps], keys, n + 1)

\* for (PrintStep step : steps) invalidated |= this->invalidate_step(step);
RECURSIVE InvalidateSteps(_, _, _)
InvalidateSteps(acc, steps, n) ==
    IF n > Len(steps) THEN acc
    ELSE LET r == Print_invalidate_step(acc.p, steps[n])
         IN  InvalidateSteps([p |-> r.p, invalidated |-> acc.invalidated \/ r.changed],
                             steps, n + 1)

\* for (PrintObject *object : m_objects) invalidated |= object->invalidate_step(ostep);
RECURSIVE InvalidateOnObjects(_, _, _)
InvalidateOnObjects(acc, ostep, idx) ==
    IF idx > Len(acc.o) THEN acc
    ELSE LET r == PrintObject_invalidate_step(acc.p, acc.o, idx, ostep)
         IN  InvalidateOnObjects([p |-> r.p, o |-> r.o,
                                  invalidated |-> acc.invalidated \/ r.changed],
                                 ostep, idx + 1)

\* for (PrintObjectStep ostep : osteps) for (PrintObject *object : m_objects) ...
RECURSIVE InvalidateObjectSteps(_, _, _)
InvalidateObjectSteps(acc, osteps, n) ==
    IF n > Len(osteps) THEN acc
    ELSE InvalidateObjectSteps(InvalidateOnObjects(acc, osteps[n], 1), osteps, n + 1)

\* Mutant of invalidate_state_by_config_options: the loop over opt_keys is left
\* after its first key.
invalidate_state_by_config_options_FirstKey(p, o, opt_keys) ==
    IF opt_keys = <<>>
    THEN [p |-> p, o |-> o, invalidated |-> FALSE]
    ELSE LET scan == ScanKeys([p |-> p, invalidated |-> FALSE,
                               steps |-> <<>>, osteps |-> <<>>], <<opt_keys[1]>>, 1)
             a == InvalidateSteps([p |-> scan.p, invalidated |-> scan.invalidated],
                                  sort_remove_duplicates(scan.steps, PrintStepOrder), 1)
         IN  InvalidateObjectSteps([p |-> a.p, o |-> o, invalidated |-> a.invalidated],
                                   sort_remove_duplicates(scan.osteps, PrintObjectStepOrder), 1)

invalidate_state_by_config_options(p, o, opt_keys) ==
    IF opt_keys = <<>>
    THEN [p |-> p, o |-> o, invalidated |-> FALSE]
    ELSE LET scan == ScanKeys([p |-> p, invalidated |-> FALSE,
                               steps |-> <<>>, osteps |-> <<>>], opt_keys, 1)
             a == InvalidateSteps([p |-> scan.p, invalidated |-> scan.invalidated],
                                  sort_remove_duplicates(scan.steps, PrintStepOrder), 1)
         IN  InvalidateObjectSteps([p |-> a.p, o |-> o, invalidated |-> a.invalidated],
                                   sort_remove_duplicates(scan.osteps, PrintObjectStepOrder), 1)

\* Mutant of is_step_done: the test for an empty m_objects is missing.
is_step_done_NoEmptyTest(o, ostep) ==
    \A idx \in 1..Len(o) : o[idx][ostep] = DONE

\* Print::is_step_done(PrintObjectStep).
is_step_done(o, ostep) ==
    IF Len(o) = 0 THEN FALSE
    ELSE \A idx \in 1..Len(o) : o[idx][ostep] = DONE

-----------------------------------------------------------------------------
(* Result collections of the job-level stages.                             *)

\* What a collection holds: nothing, what the current run of its stage put
\* there, or what an earlier run of its stage left behind.
EMPTY == "empty"
FRESH == "fresh"
STALE == "stale"

Contents == {EMPTY, FRESH, STALE}

\* m_wipe_tower_data holds the estimate wipe_tower_data() makes before the tower
\* is planned: the configured brim width, a depth guessed from the purge
\* volumes and the height -1 ("unknown yet").
ESTIMATE == "estimate"

\* What a collection holds is not followed: it may be any of Contents, and
\* stays so whatever is done to it.
UNTRACKED == "untracked"

\* The collections process() clears when set_started(psWipeTower) lets it in.
WipeTowerCollections == {"m_wipe_tower_data", "m_tool_ordering"}

\* The collections process() clears in the psSkirtBrim stage.
SkirtBrimCollections ==
    {"m_skirt", "m_skirt_convex_hull", "m_brim", "m_first_layer_convex_hull"}

Collections == WipeTowerCollections \cup SkirtBrimCollections

\* A new run of a stage begins: what its collections hold is from an earlier run.
Aged(c, names) ==
    [n \in Collections |-> IF n \in names /\ c[n] \in {FRESH, STALE} THEN STALE ELSE c[n]]

\* Mutant of Cleared: the collections are left as they are.
Cleared_Kept(c, names) == c

\* x.clear() for every collection x of `names`.
Cleared(c, names) ==
    [n \in Collections |-> IF n \in names /\ c[n] # UNTRACKED THEN EMPTY ELSE c[n]]

\* The current run assigns to or appends to the collection.
Filled(c, name) == [c EXCEPT ![name] = IF @ = UNTRACKED THEN UNTRACKED ELSE FRESH]

-----------------------------------------------------------------------------
(* Sequential printing: the clearance checks of validate().                *)
(* The bed is a line; lengths are integers, hull bounds are kept doubled   *)
(* so that half of the clearance radius stays an integer.                  *)

\* BuildVolume::BedEpsilon, in the length unit of the arrangement.
BedEpsilon == 1

Abs(n) == IF n < 0 THEN -n ELSE n
Max2(a, b) == IF a >= b THEN a ELSE b
Min2(a, b) == IF a <= b THEN a ELSE b

\* model_object()->convex_hull_2d(): the footprint of an instance around its
\* origin, of half-width a.
convex_hull_2d(a) == [lo |-> -2 * a, hi |-> 2 * a]

\* Mutant of ClearanceMargin: the hull is grown by the whole clearance radius.
ClearanceMargin_WholeRadius(radius) == 2 * radius - 2 * BedEpsilon

\* scale_(0.5 * extruder_clearance_radius - BuildVolume::BedEpsilon), doubled.
ClearanceMargin(radius) == radius - 2 * BedEpsilon

\* offset(hull, delta): the hull grown by delta on every side (delta doubled).
offset(hull, delta) == [lo |-> hull.lo - delta, hi |-> hull.hi + delta]

\* convex_hull.translate(shift)
translate(hull, shift) == [lo |-> hull.lo + 2 * shift, hi |-> hull.hi + 2 * shift]

\* ! intersection(a, b).empty(): the two hulls share a positive area.
Intersecting(a, b) == Max2(a.lo, b.lo) < Min2(a.hi, b.hi)

\* The clearance-expanded hull of the instance k of the arrangement s.
ExpandedHull(s, k) ==
    translate(offset(convex_hull_2d(s.inst[k].a), ClearanceMargin(s.radius)),
              s.inst[k].x)

\* The indices pushed to intersecting_idxs while the instance k is tested
\* against convex_hulls_other[i..k-1] (indices count from 1 here).
RECURSIVE IdxsOfInstance(_, _, _)
IdxsOfInstance(s, k, i) ==
    IF i >= k THEN <<>>
    ELSE (IF Intersecting(ExpandedHull(s, i), ExpandedHull(s, k))
          THEN <<i, k>> ELSE <<>>) \o IdxsOfInstance(s, k, i + 1)

\* intersecting_idxs after the instances k..n were processed.
RECURSIVE IntersectingIdxs(_, _)
IntersectingIdxs(s, k) ==
    IF k > Len(s.inst) THEN <<>>
    ELSE IdxsOfInstance(s, k, 1) \o IntersectingIdxs(s, k + 1)

\* std::sort followed by erase(std::unique(...)) on a vector of indices.
RECURSIVE SortedUnique(_)
SortedUnique(S) ==
    IF S = {} THEN <<>>
    ELSE LET m == CHOOSE x \in S : \A y \in S : x <= y
         IN  <<m>> \o SortedUnique(S \ {m})

\* Without an output vector the scan returns false at the first intersection:
\* whether the instances k..n are clear of all instances placed before them.
RECURSIVE ScanFrom(_, _)
ScanFrom(s, k) ==
    IF k > Len(s.inst) THEN TRUE
    ELSE IF \E i \in 1..(k - 1) : Intersecting(ExpandedHull(s, i), ExpandedHull(s, k))
         THEN FALSE
         ELSE ScanFrom(s, k + 1)

\* Mutant of CollectedPolygons: std::unique is left out.
CollectedPolygons_Duplicated(s, idxs) ==
    [n \in DOMAIN idxs |-> [inst |-> idxs[n], hull |-> ExpandedHull(s, idxs[n])]]

\* The hulls moved to *polygons, each named by the instance it belongs to.
CollectedPolygons(s, idxs) ==
    LET u == SortedUnique(Range(idxs))
    IN  [n \in DOMAIN u |-> [inst |-> u[n], hull |-> ExpandedHull(s, u[n])]]

\* Print::sequential_print_horizontal_clearance_valid(print, polygons):
\* `diagnostic` tells whether polygons != nullptr, `polygons` is what the
\* caller's vector held before the call.
sequential_print_horizontal_clearance_valid(s, diagnostic, polygons) ==
    IF ~diagnostic
    THEN [valid |-> ScanFrom(s, 1), polygons |-> polygons]
    ELSE LET idxs == IntersectingIdxs(s, 1)
         IN  IF idxs # <<>>
             THEN [valid |-> FALSE, polygons |-> CollectedPolygons(s, idxs)]
             ELSE [valid |-> TRUE, polygons |-> <<>>]

\* sort_object_instances_by_model_order(print): the instances in the order in
\* which they are printed, by insertion of each into the sorted rest.
RECURSIVE InsertByOrder(_, _)
InsertByOrder(inst, sorted) ==
    IF sorted = <<>> THEN <<inst>>
    ELSE IF inst.ord <= Head(sorted).ord THEN <<inst>> \o sorted
         ELSE <<Head(sorted)>> \o InsertByOrder(inst, Tail(sorted))

RECURSIVE sort_object_instances_by_model_order(_)
sort_object_instances_by_model_order(insts) ==
    IF insts = <<>> THEN <<>>
    ELSE InsertByOrder(Head(insts), sort_object_instances_by_model_order(Tail(insts)))

\* Mutant of pop_back: the last instance printed is kept.
pop_back_Kept(v) == v

\* print_instances_ordered.pop_back()
pop_back(v) == SubSeq(v, 1, Len(v) - 1)

\* std::max_element over the heights; 0 stands for the end iterator.
max_height(v) ==
    IF v = <<>> THEN 0
    ELSE CHOOSE h \in {v[n].h : n \in DOMAIN v} : \A n \in DOMAIN v : v[n].h <= h

\* sequential_print_vertical_clearance_valid(print)
sequential_print_vertical_clearance_valid(s) ==
    LET print_instances_ordered == pop_back(sort_object_instances_by_model_order(s.inst))
    IN  print_instances_ordered = <<>> \/ max_height(print_instances_ordered) <= s.height

\* The configured extruder_clearance_radius and extruder_clearance_height.
ClearanceRadius == 4
ClearanceHeight == 2

\* n objects of one instance each, far from each other and low.
DefaultArrangement(n) ==
    [radius |-> ClearanceRadius, height |-> ClearanceHeight,
     inst |-> [k \in 1..n |-> [x |-> 12 * k, a |-> 1, h |-> 1, ord |-> k]]]

-----------------------------------------------------------------------------
(* Print::validate().  Lengths are integers (a nozzle of 0.4 mm is 4); the *)
(* EPSILON of the comparisons is below the unit.                           *)

\* A PrintObject as validate() reads it, with every check satisfied.
ValidObject ==
    [copies |-> 1,                               \* instances().size()
     regions |-> 1,                              \* all_regions().size()
     layers |-> <<2, 4>>,                        \* generate_object_layers(): the last two z
     support_material |-> FALSE,
     raft_layers |-> 0,
     support_material_style |-> "grid",
     has_custom_layering |-> FALSE,
     layers_fixed |-> TRUE,                      \* check_object_layers_fixed()
     support_material_extruder |-> 1,
     support_material_interface_extruder |-> 1,
     support_material_contact_distance |-> 2,
     support_material_synchronize_layers |-> FALSE,
     first_print_layer_height |-> 3,             \* slicing_parameters()
     equal_layering |-> TRUE,                    \* equal_layering() with the first object
     profile_equal |-> TRUE,                     \* profile agrees with the tallest object's
     layer_height |-> 2,
     extrusion_width |-> 0,
     support_material_extrusion_width |-> 0,
     region_extrusion_width |-> 0,               \* the five per-region widths
     has_enforcers |-> FALSE]

\* How many settings of a valid job are changed before it is validated.
MaxFaults == 2

\* One layer of a tool ordering: its height, whether the tower has a layer
\* there, the tower partitions it requires and the extruders it prints with.
LayerTools(print_z, has_wipe_tower, wipe_tower_partitions, extruders) ==
    [print_z |-> print_z, has_wipe_tower |-> has_wipe_tower,
     wipe_tower_partitions |-> wipe_tower_partitions, extruders |-> extruders]

\* A Print over n objects as validate() reads it, with every check satisfied.
ValidJob(n) ==
    [objects |-> [i \in 1..n |-> ValidObject],
     extruders |-> <<1>>,                         \* this->extruders()
     nozzle_diameter |-> <<4, 4>>,
     filament_diameter_equal |-> TRUE,            \* within 10 % of the first one
     complete_objects |-> FALSE,
     avoid_crossing_perimeters |-> FALSE,
     avoid_crossing_curled_overhangs |-> FALSE,
     spiral_vase |-> FALSE,
     machine_limits_usage |-> "time_estimate",
     gcode_flavor |-> "marlin",
     max_print_height |-> 6,
     has_wipe_tower |-> FALSE,
     use_relative_e_distances |-> TRUE,
     ooze_prevention |-> FALSE,
     single_extruder_multi_material |-> FALSE,
     use_volumetric_e |-> FALSE,
     first_layer_height |-> 3,
     before_layer_gcode_resets_extruder |-> FALSE,
     layer_gcode_resets_extruder |-> TRUE,
     min_skirt_length |-> 0,
     tool_ordering |->                            \* ToolOrdering(*this, -1, true)
         [layer_tools |-> <<LayerTools(2, TRUE, 1, <<1>>), LayerTools(4, TRUE, 1, <<1>>)>>,
          all_extruders |-> <<1>>],
     wipe_volumes |-> <<<<0, 0>>, <<0, 0>>>>,     \* extract_wipe_volumes(m_config)
     filament_minimal_purge_on_wipe_tower |-> <<1, 1>>,
     skirt_loop_length |-> <<1, 1>>,              \* extruded by one loop, per extruder
     changes |-> 0]                               \* settings changed since the valid job

has_support(o) == o.support_material
has_raft(o) == o.raft_layers > 0
has_support_material(o) == has_support(o) \/ has_raft(o)

\* Smallest and largest nozzle diameter over the extruders in use.
min_nozzle_diameter(j) ==
    CHOOSE d \in {j.nozzle_diameter[e] : e \in Range(j.extruders)} :
        \A e \in Range(j.extruders) : d <= j.nozzle_diameter[e]

max_nozzle_diameter(j) ==
    CHOOSE d \in {j.nozzle_diameter[e] : e \in Range(j.extruders)} :
        \A e \in Range(j.extruders) : d >= j.nozzle_diameter[e]

RECURSIVE SumCopies(_, _)
SumCopies(objects, i) ==
    IF i > Len(objects) THEN 0 ELSE objects[i].copies + SumCopies(objects, i + 1)

\* The message tags of validate(); NoMessage is the empty string.
NoMessage == ""

\* Mutant of BuildHeightMessage: the two messages change places.
BuildHeightMessage_Swapped(j, o) ==
    LET n == Len(o.layers)
    IN  IF n > 0 /\ o.layers[n] > j.max_print_height
        THEN IF o.layers[n - 1] + o.layers[n] > 2 * j.max_print_height
             THEN "last_layer_exceeds_build_height"
             ELSE "exceeds_build_height"
        ELSE NoMessage

\* lines 515-527: the max print height test of one object.
BuildHeightMessage(j, o) ==
    LET n == Len(o.layers)
    IN  IF n > 0 /\ o.layers[n] > j.max_print_height
        THEN IF o.layers[n - 1] + o.layers[n] > 2 * j.max_print_height
             THEN "exceeds_build_height"
             ELSE "last_layer_exceeds_build_height"
        ELSE NoMessage

\* lines 535-542: custom layering with Organic supports, for one object.
OrganicLayeringMessage(j, o) ==
    IF /\ has_support_material(o)
       /\ o.support_material_style = "organic"
       /\ o.has_custom_layering
       /\ o.layers # <<>>
       /\ ~o.layers_fixed
    THEN "organic_variable_layer_height"
    ELSE NoMessage

\* lines 574-593: one object compared with the first one for the wipe tower.
WipeTowerObjectMessage(j, o) ==
    LET o0 == j.objects[1]
    IN  IF \/ o.first_print_layer_height # o0.first_print_layer_height
           \/ o.layer_height # o0.layer_height
        THEN "wipe_tower_layer_heights"
        ELSE IF o.raft_layers # o0.raft_layers THEN "wipe_tower_raft_layers"
        ELSE IF o.support_material_contact_distance # o0.support_material_contact_distance
             THEN "wipe_tower_contact_distance"
        ELSE IF ~o.equal_layering THEN "wipe_tower_layering"
        ELSE NoMessage

\* The first non-empty message of a sequence of messages, if any.
RECURSIVE FirstMessage(_)
FirstMessage(msgs) ==
    IF msgs = <<>> THEN NoMessage
    ELSE IF Head(msgs) # NoMessage THEN Head(msgs)
    ELSE FirstMessage(Tail(msgs))

\* lines 595-615: the layer height profiles against the tallest object's.
WipeTowerProfileMessage(j, o) ==
    IF ~o.profile_equal THEN "wipe_tower_variable_layer_height" ELSE NoMessage

\* lines 544-617: the wipe tower block.
WipeTowerMessage(j) ==
    IF ~(j.has_wipe_tower /\ j.objects # <<>>) THEN NoMessage
    ELSE IF \/ \E e \in Range(j.extruders) :
                  j.nozzle_diameter[e] # j.nozzle_diameter[j.extruders[1]]
            \/ ~j.filament_diameter_equal
         THEN "wipe_tower_diameters"
    ELSE IF j.gcode_flavor \notin {"sprinter", "reprapfirmware", "repetier",
                                   "marlin_legacy", "marlin", "klipper"}
         THEN "wipe_tower_flavor"
    ELSE IF ~j.use_relative_e_distances THEN "wipe_tower_relative_e"
    ELSE IF j.ooze_prevention /\ j.single_extruder_multi_material
         THEN "wipe_tower_ooze_prevention"
    ELSE IF j.use_volumetric_e THEN "wipe_tower_volumetric_e"
    ELSE IF j.complete_objects /\ Len(j.extruders) > 1 THEN "wipe_tower_sequential"
    ELSE IF Len(j.objects) > 1
         THEN LET m == FirstMessage([i \in 1..(Len(j.objects) - 1) |->
                                         WipeTowerObjectMessage(j, j.objects[i + 1])])
              IN  IF m # NoMessage THEN m
                  ELSE IF \E i \in DOMAIN j.objects : j.objects[i].has_custom_layering
                       THEN FirstMessage([i \in DOMAIN j.objects |->
                                            WipeTowerProfileMessage(j, j.objects[i])])
                       ELSE NoMessage
    ELSE NoMessage

\* Mutant of ExtrusionWidthMessage: three nozzle diameters are still accepted.
ExtrusionWidthMessage_ThreeNozzlesAccepted(j, width, layer_height) ==
    IF width = 0 THEN NoMessage
    ELSE IF width <= layer_height THEN "extrusion_width_too_low"
    ELSE IF width > 3 * max_nozzle_diameter(j) THEN "extrusion_width_excessive"
    ELSE NoMessage

\* lines 638-655: validate_extrusion_width, the width measured against the
\* layer height and three times the largest nozzle.
ExtrusionWidthMessage(j, width, layer_height) ==
    IF width = 0 THEN NoMessage
    ELSE IF width <= layer_height THEN "extrusion_width_too_low"
    ELSE IF width >= 3 * max_nozzle_diameter(j) THEN "extrusion_width_excessive"
    ELSE NoMessage

\* lines 657-665: supports printed with the current extruder need equal nozzles.
SupportNozzleMessage(j, o) ==
    IF /\ has_support_material(o)
       /\ (o.support_material_extruder = 0 \/ o.support_material_interface_extruder = 0)
       /\ max_nozzle_diameter(j) > min_nozzle_diameter(j)
    THEN "support_nozzle_diameters"
    ELSE NoMessage

\* lines 666-677: supports next to the wipe tower.
WipeTowerSupportMessage(j, o) ==
    IF has_support_material(o) /\ j.has_wipe_tower /\ o.support_material_style # "organic"
    THEN IF o.support_material_contact_distance = 0
         THEN IF ~o.support_material_synchronize_layers
              THEN "wipe_tower_soluble_supports" ELSE NoMessage
         ELSE IF \/ o.support_material_extruder # 0
                 \/ o.support_material_interface_extruder # 0
              THEN "wipe_tower_non_soluble_supports" ELSE NoMessage
    ELSE NoMessage

\* lines 693-715: first layer height and layer height against the nozzles.
LayerHeightMessage(j, o) ==
    LET first_layer_extruder ==
            IF o.raft_layers = 1 THEN o.support_material_interface_extruder
            ELSE o.support_material_extruder
        first_layer_min_nozzle_diameter ==
            IF has_raft(o) /\ first_layer_extruder # 0
            THEN j.nozzle_diameter[first_layer_extruder]
            ELSE min_nozzle_diameter(j)
    IN  IF j.first_layer_height > first_layer_min_nozzle_diameter
        THEN "first_layer_height"
        ELSE IF o.layer_height > min_nozzle_diameter(j) THEN "layer_height"
        ELSE NoMessage

\* lines 717-726: the extrusion widths of one object.
ObjectWidthsMessage(j, o) ==
    LET m1 == ExtrusionWidthMessage(j, o.extrusion_width, o.layer_height)
        m2 == IF has_support(o) \/ has_raft(o)
              THEN ExtrusionWidthMessage(j, o.support_material_extrusion_width,
                                         o.layer_height)
              ELSE NoMessage
        m3 == ExtrusionWidthMessage(j, o.region_extrusion_width, o.layer_height)
    IN  IF m1 # NoMessage THEN m1 ELSE IF m2 # NoMessage THEN m2 ELSE m3

\* Mutant of ObjectMessage: the extrusion widths are looked at first.
ObjectMessage_WidthsFirst(j, o) ==
    LET m1 == ObjectWidthsMessage(j, o)
        m2 == SupportNozzleMessage(j, o)
        m3 == WipeTowerSupportMessage(j, o)
        m4 == LayerHeightMessage(j, o)
    IN  IF m1 # NoMessage THEN m1
        ELSE IF m2 # NoMessage THEN m2
        ELSE IF m3 # NoMessage THEN m3
        ELSE m4

\* lines 656-727: the body of the loop `for (PrintObject *object : m_objects)`.
ObjectMessage(j, o) ==
    LET m1 == SupportNozzleMessage(j, o)
        m2 == WipeTowerSupportMessage(j, o)
        m3 == LayerHeightMessage(j, o)
        m4 == ObjectWidthsMessage(j, o)
    IN  IF m1 # NoMessage THEN m1
        ELSE IF m2 # NoMessage THEN m2
        ELSE IF m3 # NoMessage THEN m3
        ELSE m4

\* lines 729-741: G92 E0 in the per-layer custom G-code.
CustomGCodeMessage(j) ==
    IF j.use_relative_e_distances
    THEN IF /\ j.gcode_flavor \in {"marlin_legacy", "marlin"}
            /\ ~j.before_layer_gcode_resets_extruder
            /\ ~j.layer_gcode_resets_extruder
         THEN "g92_e0_missing" ELSE NoMessage
    ELSE IF j.before_layer_gcode_resets_extruder THEN "g92_e0_in_before_layer_gcode"
    ELSE IF j.layer_gcode_resets_extruder THEN "g92_e0_in_layer_gcode"
    ELSE NoMessage

\* lines 471-476: the clearance checks of sequential printing.
SequentialMessage(j, s) ==
    IF ~j.complete_objects THEN NoMessage
    ELSE IF ~sequential_print_horizontal_clearance_valid(s, FALSE, <<>>).valid
         THEN "too_close"
    ELSE IF ~sequential_print_vertical_clearance_valid(s) THEN "too_tall"
    ELSE NoMessage

\* lines 482-493: Spiral Vase.
SpiralVaseMessage(j) ==
    IF ~j.spiral_vase THEN NoMessage
    ELSE IF SumCopies(j.objects, 1) > 1 /\ ~j.complete_objects THEN "spiral_vase_copies"
    ELSE IF j.objects[1].regions > 1 THEN "spiral_vase_regions"
    ELSE NoMessage

\* Mutant of EmptyPrintMessage: the extruders are looked at before the objects.
EmptyPrintMessage_ExtrudersFirst(j) ==
    IF j.extruders = <<>> THEN "no_extruders"
    ELSE IF j.objects = <<>> THEN "no_objects"
    ELSE NoMessage

\* lines 465-469: nothing to print.
EmptyPrintMessage(j) ==
    IF j.objects = <<>> THEN "no_objects"
    ELSE IF j.extruders = <<>> THEN "no_extruders"
    ELSE NoMessage

\* Print::validate(): the message returned for the job j arranged as s.
validate(j, s) ==
    LET m1 == EmptyPrintMessage(j) IN
    IF m1 # NoMessage THEN m1 ELSE
    LET m2 == SequentialMessage(j, s) IN
    IF m2 # NoMessage THEN m2 ELSE
    IF j.avoid_crossing_perimeters /\ j.avoid_crossing_curled_overhangs
    THEN "avoid_crossing_conflict" ELSE
    LET m4 == SpiralVaseMessage(j) IN
    IF m4 # NoMessage THEN m4 ELSE
    IF j.machine_limits_usage = "emit_to_gcode" /\ j.gcode_flavor = "klipper"
    THEN "machine_limits_klipper" ELSE
    LET m5 == FirstMessage([i \in DOMAIN j.objects |-> BuildHeightMessage(j, j.objects[i])]) IN
    IF m5 # NoMessage THEN m5 ELSE
    LET m6 == FirstMessage([i \in DOMAIN j.objects |-> OrganicLayeringMessage(j, j.objects[i])]) IN
    IF m6 # NoMessage THEN m6 ELSE
    LET m7 == WipeTowerMessage(j) IN
    IF m7 # NoMessage THEN m7 ELSE
    LET m8 == FirstMessage([i \in DOMAIN j.objects |-> ObjectMessage(j, j.objects[i])]) IN
    IF m8 # NoMessage THEN m8 ELSE
    CustomGCodeMessage(j)

-----------------------------------------------------------------------------
(* State.                                                                  *)

VARIABLES
    pstate,     \* status of every job-level step (Print's PrintState)
    ostate,     \* m_objects: per PrintObject, the status of its steps
    canceled,   \* the cancellation signal polled by throw_if_canceled
    wk,         \* per executor: position in process() / export_gcode()
    aborted,    \* the step whose stage observed the cancellation, until disturbed
    last,       \* the foreground invalidation call made by the last step, if any
    coll,       \* the result collections of the purge-tower and skirt/brim stages
    job,        \* what validate() reads: the configuration and the objects
    seq,        \* the arrangement read by the sequential-print clearance checks
    fg          \* the foreground's position inside a locked invalidate_step call

vars == <<pstate, ostate, canceled, wk, aborted, last, coll, job, seq, fg>>

Workers == {1, 2}

\* Keys the foreground feeds to the classifier: one per branch of the chain.
SampleKeyOrder ==
    <<"bed_temperature", "skirts", "spiral_vase", "wipe_tower", "filament_soluble",
      "first_layer_extrusion_width", "avoid_crossing_curled_overhangs",
      "unknown_option">>

SampleKeys == Range(SampleKeyOrder)

RECURSIVE SeqsUpTo(_, _)
SeqsUpTo(S, n) ==
    IF n = 0 THEN {<<>>}
    ELSE LET shorter == SeqsUpTo(S, n - 1)
         IN  shorter \cup {Append(s, x) : s \in {q \in shorter : Len(q) = n - 1}, x \in S}

Batches == SeqsUpTo(SampleKeys, MaxBatch)

\* The batches of a configuration change that touches at most one key.
SingleKeyBatches == {<<>>} \cup {<<key>> : key \in SampleKeys}

NoCall == [op |-> "none"]

\* An executor that is not running.  `run` follows the stage the executor is in:
\* "running" once set_started let it in, "complete" once the last statement of
\* the stage body ran, "error" when a failure was met on the way.
\* Besides the position, the record holds the local variables of the function
\* being executed: of _make_skirt() the loop counter `loops` (i), extruder_idx,
\* extruded_length, the offset `distance` (in loop spacings, modulo
\* DistanceSteps) and whether an offset vanished; `emitted` counts the loops
\* appended to m_skirt per extruder, `few` tells until the end of the skirt/brim
\* stage that the skirt generation was handed fewer than three points.  Of
\* _make_wipe_tower() it holds the index `layer` of the layer the planning loop
\* is at, current_extruder_id, the `plan` handed to the WipeTower (its layers in
\* the order of the plan_toolchange calls, each with its tool changes) and the
\* heights at which a final purge was scheduled.  Of process() it holds the loop
\* `for (PrintObject *obj : m_objects)` it is in: the stage k, the index i of the
\* object the loop is at and objects_end, the end of m_objects as the loop took
\* it when it was entered.
Idle == [pc |-> "idle", k |-> 0, i |-> 0, objects_end |-> 0, loops |-> 0, ret |-> "none",
         ds |-> FALSE, run |-> "none", outcome |-> "none",
         extruder_idx |-> 0, extruded_length |-> <<>>, emitted |-> <<>>,
         distance |-> 0, few |-> FALSE, vanished |-> FALSE,
         layer |-> 0, current_extruder_id |-> 0, plan |-> <<>>, final_purge |-> <<>>]

AllIdle == \A w \in Workers : wk[w].pc = "idle"

\* The foreground is not inside Print::invalidate_step.
FgIdle == [pc |-> "idle", step |-> "none", ret |-> FALSE]

\* Mutant of MutexFree: the state mutex is not waited for.
MutexFree_Ignored(f) == TRUE

\* std::scoped_lock<std::mutex> lock(this->state_mutex()) can be taken: the
\* foreground does not hold the mutex around an invalidate_step call.  A caller
\* of is_step_done that has tested m_objects.empty() does not hold it yet, a
\* caller of wipe_tower_data that is writing its estimate holds it no longer.
MutexFree(f) == f.pc \in {"idle", "tested", "estimating"}

Init ==
    /\ pstate = [s \in PrintSteps |-> INVALID]
    /\ \E n \in 0..MaxObjects :
           /\ ostate = [idx \in 1..n |-> [s \in PrintObjectSteps |-> INVALID]]
           /\ job = ValidJob(n)
           /\ seq = DefaultArrangement(n)
    /\ canceled = FALSE
    /\ wk = [w \in Workers |-> Idle]
    /\ aborted = "none"
    /\ last = NoCall
    /\ coll = [n \in Collections |-> EMPTY]
    /\ fg = FgIdle

\* The state after construction of a print of one object whose skirt is drawn
\* with one or two extruders, for every minimum skirt length and every length of
\* a loop (a loop of no length included).
InitSkirt ==
    /\ pstate = [s \in PrintSteps |-> INVALID]
    /\ ostate = [idx \in 1..1 |-> [s \in PrintObjectSteps |-> INVALID]]
    /\ \E extruders \in {<<1>>, <<1, 2>>}, length \in 0..MaxLength,
          loop \in [1..2 -> 0..MaxLength] :
           job = [ValidJob(1) EXCEPT !.extruders = extruders,
                                     !.min_skirt_length = length,
                                     !.skirt_loop_length = loop]
    /\ seq = DefaultArrangement(1)
    /\ canceled = FALSE
    /\ wk = [w \in Workers |-> Idle]
    /\ aborted = "none"
    /\ last = NoCall
    /\ coll = [n \in Collections |-> EMPTY]
    /\ fg = FgIdle

\* The layers a tool ordering may hold at the height z: with or without the
\* tower, requiring a tower partition or none, printed with the first extruder
\* or with both.
LayerChoices(z) ==
    {LayerTools(z, t, p, e) : t \in BOOLEAN, p \in {0, 1}, e \in {<<1>>, <<1, 2>>}}

\* The tool orderings of up to MaxLayers layers, a layer height apart.
ToolOrderings ==
    UNION {[1..n -> UNION {LayerChoices(2 * k) : k \in 1..n}] : n \in 1..MaxLayers}

\* The state after construction of a print of one object with two extruders,
\* for every tool ordering whose layers rise by the layer height, either
\* priming order, every uniform purge-volume matrix and a forced purge of one
\* unit or none.
InitTower ==
    /\ pstate = [s \in PrintSteps |-> INVALID]
    /\ ostate = [idx \in 1..1 |-> [s \in PrintObjectSteps |-> INVALID]]
    /\ \E layers \in ToolOrderings, all_extruders \in {<<1, 2>>, <<2, 1>>},
          volume \in 0..MaxVolume, minimal_purge \in {0, 1} :
           /\ \A k \in DOMAIN layers : layers[k].print_z = 2 * k
           /\ job = [ValidJob(1) EXCEPT
                         !.extruders = <<1, 2>>,
                         !.tool_ordering = [layer_tools |-> layers,
                                            all_extruders |-> all_extruders],
                         !.wipe_volumes = [from \in 1..2 |-> [to \in 1..2 |-> volume]],
                         !.filament_minimal_purge_on_wipe_tower =
                             [e \in 1..2 |-> minimal_purge]]
    /\ seq = DefaultArrangement(1)
    /\ canceled = FALSE
    /\ wk = [w \in Workers |-> Idle]
    /\ aborted = "none"
    /\ last = NoCall
    /\ coll = [n \in Collections |-> UNTRACKED]
    /\ fg = FgIdle

\* Jobs in Spiral Vase mode: up to MaxObjects objects of one or two copies and
\* one or two regions each, sequential printing on or off, all else valid.
SpiralVaseJobs ==
    {[ValidJob(Len(objects)) EXCEPT
          !.spiral_vase = TRUE, !.complete_objects = complete_objects,
          !.objects = [i \in DOMAIN objects |->
                          [ValidObject EXCEPT !.copies = objects[i][1],
                                              !.regions = objects[i][2]]]] :
     objects \in UNION {[1..n -> {1, 2} \X {1, 2}] : n \in 1..MaxObjects},
     complete_objects \in BOOLEAN}

\* Largest nozzle diameter of the jobs whose extrusion widths are checked.
MaxNozzle == 2

\* Jobs of one object that differ in the nozzle diameter, the layer height and
\* two of the extrusion widths: the object's own and its regions'.
WidthJobs ==
    {[ValidJob(1) EXCEPT
          !.nozzle_diameter = <<d, d>>, !.first_layer_height = h,
          !.objects = <<[ValidObject EXCEPT !.layer_height = h,
                                            !.extrusion_width = w[1],
                                            !.region_extrusion_width = w[2]]>>] :
     <<d, h, w>> \in
         UNION {{d} \X (1..d) \X ((0..(3 * d + 1)) \X (0..(3 * d + 1))) : d \in 1..MaxNozzle}}

\* How far the top layer of an object exceeds the maximum print height at most.
MaxExcess == 2

\* Jobs that differ in the last two layers of every object: the top layer
\* ends within MaxExcess of the maximum print height, the one below it one
\* to three units lower.
HeightJobs ==
    {[ValidJob(Len(tops)) EXCEPT
          !.objects = [i \in DOMAIN tops |->
                          [ValidObject EXCEPT
                               !.layers = <<tops[i][1] - tops[i][2], tops[i][1]>>]]] :
     tops \in UNION {[1..n -> ((ValidJob(1).max_print_height - 1)
                                    ..(ValidJob(1).max_print_height + MaxExcess)) \X (1..3)] :
                     n \in 1..MaxObjects}}

\* The state after construction of a print that validate() is to look at: a
\* job of one of the families above, arranged so that the clearance checks pass.
InitChecks ==
    /\ pstate = [s \in PrintSteps |-> INVALID]
    /\ \E j \in SpiralVaseJobs \cup WidthJobs \cup HeightJobs :
           /\ job = j
           /\ ostate = [idx \in DOMAIN j.objects |-> [s \in PrintObjectSteps |-> INVALID]]
           /\ seq = DefaultArrangement(Len(j.objects))
    /\ canceled = FALSE
    /\ wk = [w \in Workers |-> Idle]
    /\ aborted = "none"
    /\ last = NoCall
    /\ coll = [n \in Collections |-> EMPTY]
    /\ fg = FgIdle

\* The state after construction, the contents of the result collections not
\* followed.
InitStatus ==
    /\ pstate = [s \in PrintSteps |-> INVALID]
    /\ \E n \in 0..MaxObjects :
           /\ ostate = [idx \in 1..n |-> [s \in PrintObjectSteps |-> INVALID]]
           /\ job = ValidJob(n)
           /\ seq = DefaultArrangement(n)
    /\ canceled = FALSE
    /\ wk = [w \in Workers |-> Idle]
    /\ aborted = "none"
    /\ last = NoCall
    /\ coll = [n \in Collections |-> UNTRACKED]
    /\ fg = FgIdle

\* Instances of a sequential print.
MaxInstances == 3

\* Where instances are placed, the half-widths of their footprints and their
\* heights (the clearance radius is 4, the clearance height 2).
Positions == {0, 2, 4, 9, 11}
Footprints == {1, 4}
Heights == {1, 2, 3}

\* Arrangements of low instances, printed in the order of their placement.
HorizontalArrangements ==
    UNION {{[radius |-> ClearanceRadius, height |-> ClearanceHeight,
             inst |-> [k \in 1..n |-> [x |-> xs[k], a |-> as[k], h |-> 1, ord |-> k]]] :
                xs \in [1..n -> Positions], as \in [1..n -> Footprints]} :
           n \in 0..MaxInstances}

\* Arrangements of instances far from each other, of any height, printed in
\* any order.
VerticalArrangements ==
    UNION {{[radius |-> ClearanceRadius, height |-> ClearanceHeight,
             inst |-> [k \in 1..n |-> [x |-> 12 * k, a |-> 1, h |-> hs[k], ord |-> os[k]]]] :
                hs \in [1..n -> Heights],
                os \in {f \in [1..n -> 1..n] : \A u, v \in 1..n : f[u] = f[v] => u = v}} :
           n \in 0..MaxInstances}

\* What the output vector of the horizontal check may hold before the call.
LeftoverPolygons == {<<>>, <<[inst |-> 0, hull |-> convex_hull_2d(1)]>>}

\* A sequential print of one object per instance, valid but for its arrangement.
InitSequential ==
    /\ pstate = [s \in PrintSteps |-> INVALID]
    /\ seq \in HorizontalArrangements \cup VerticalArrangements
    /\ ostate = [idx \in 1..Len(seq.inst) |-> [s \in PrintObjectSteps |-> INVALID]]
    /\ job = [ValidJob(Len(seq.inst)) EXCEPT !.complete_objects = TRUE]
    /\ canceled = FALSE
    /\ wk = [w \in Workers |-> Idle]
    /\ aborted = "none"
    /\ last = NoCall
    /\ coll = [n \in Collections |-> EMPTY]
    /\ fg = FgIdle

-----------------------------------------------------------------------------
(* Foreground actor.                                                       *)

\* What `last` keeps of a batch: whether it is empty, holds a key of the
\* fallback branch, holds G-code-only keys alone, or anything else.
BatchKind(opt_keys) ==
    IF opt_keys = <<>> THEN "empty"
    ELSE IF \E n \in DOMAIN opt_keys : ClassifyKey(opt_keys[n]).all THEN "unknown"
    ELSE IF \A n \in DOMAIN opt_keys : opt_keys[n] \in steps_gcode THEN "gcode_only"
    ELSE "other"

\* The executor's record once the foreground has changed the statuses: how the
\* last call returned is no longer of interest.
Disturbed(w) == IF wk[w].pc = "idle" THEN Idle ELSE wk[w]

\* Print::invalidate_step(step) called on the job.
InvalidateStep(step) ==
    LET r == Print_invalidate_step(pstate, step)
    IN  /\ pstate' = r.p
        /\ last' = [op |-> "invalidate_step", arg |-> step, ret |-> r.changed]
        /\ aborted' = "none"
        /\ wk' = [w \in Workers |-> Disturbed(w)]
        /\ UNCHANGED <<ostate, canceled, coll, job, seq, fg>>

\* Print::apply() handing a batch of changed keys to
\* invalidate_state_by_config_options, between two calls of the executor.
ApplyConfig(opt_keys) ==
    LET r == invalidate_state_by_config_options(pstate, ostate, opt_keys)
    IN  /\ AllIdle
        /\ pstate' = r.p
        /\ ostate' = r.o
        /\ last' = [op |-> "config", arg |-> BatchKind(opt_keys), ret |-> r.invalidated]
        /\ aborted' = "none"
        /\ wk' = [w \in Workers |-> Disturbed(w)]
        /\ UNCHANGED <<canceled, coll, job, seq, fg>>

\* Print::clear(): invalidate_all_steps (background processing is stopped),
\* then every PrintObject is deleted.
Clear ==
    /\ AllIdle
    /\ pstate' = invalidate_all_steps(pstate).p
    /\ ostate' = <<>>
    /\ job' = [job EXCEPT !.objects = <<>>]
    /\ seq' = [seq EXCEPT !.inst = <<>>]
    /\ last' = [op |-> "clear"]
    /\ aborted' = "none"
    /\ wk' = [w \in Workers |-> Disturbed(w)]
    /\ UNCHANGED <<canceled, coll, fg>>

\* The foreground raises the cancellation signal.
Cancel ==
    /\ ~canceled
    /\ \E w \in Workers : wk[w].pc # "idle"
    /\ canceled' = TRUE
    /\ last' = NoCall
    /\ UNCHANGED <<pstate, ostate, wk, aborted, coll, job, seq, fg>>

\* The signal is lowered before the executor is called again.
ResetCancel ==
    /\ canceled
    /\ AllIdle
    /\ canceled' = FALSE
    /\ last' = NoCall
    /\ UNCHANGED <<pstate, ostate, wk, aborted, coll, job, seq, fg>>

\* assert(m_objects.size() == 1);
SpiralVaseAssertion(j) == Len(j.objects) = 1

\* validate() gets as far as the assertion and the single-material test of
\* Spiral Vase: no earlier check has returned.
ReachesSpiralVaseRegions(j, s) ==
    /\ EmptyPrintMessage(j) = NoMessage
    /\ SequentialMessage(j, s) = NoMessage
    /\ ~(j.avoid_crossing_perimeters /\ j.avoid_crossing_curled_overhangs)
    /\ j.spiral_vase
    /\ ~(SumCopies(j.objects, 1) > 1 /\ ~j.complete_objects)

\* What a call of validate() may come to: the message returned or, where the
\* assertion does not hold, the abort of a build that has assertions compiled in.
ValidateOutcomes(j, s) ==
    IF ReachesSpiralVaseRegions(j, s) /\ ~SpiralVaseAssertion(j)
    THEN {validate(j, s), "assertion_failed"}
    ELSE {validate(j, s)}

\* Mutant of Validate: a failed validation resets the statuses of the job.
Validate_Invalidating ==
    LET m == validate(job, seq)
    IN  /\ last' = [op |-> "validate", ret |-> m]
        /\ pstate' = IF m # NoMessage THEN invalidate_all_steps(pstate).p ELSE pstate
        /\ UNCHANGED <<ostate, canceled, wk, aborted, coll, job, seq, fg>>

\* The foreground calls Print::validate(); the message comes back as a value.
Validate ==
    /\ \E ret \in ValidateOutcomes(job, seq) : last' = [op |-> "validate", ret |-> ret]
    /\ UNCHANGED <<pstate, ostate, canceled, wk, aborted, coll, job, seq, fg>>

\* Settings of the whole print that fail one check of validate() each.
PrintFaults ==
    {"no_extruders", "too_close", "too_tall", "avoid_crossing", "machine_limits",
     "wipe_tower_diameters", "wipe_tower_flavor", "wipe_tower_volumetric_e",
     "absolute_e", "first_layer_height", "g92_e0_missing"}

\* Settings of one object that fail one check of validate() each.
ObjectFaults ==
    {"spiral_vase_copies", "spiral_vase_regions", "exceeds_build_height",
     "last_layer_exceeds", "organic_layering", "wipe_tower_raft_layers",
     "support_nozzles", "wipe_tower_soluble", "layer_height", "width_too_low",
     "width_excessive"}

\* The job with the settings of the fault f changed (on the object i).
WithFault(j, f, i) ==
    LET obj(change) == [j EXCEPT !.objects[i] = change]
        o == j.objects[i]
    IN  CASE f = "no_extruders" -> [j EXCEPT !.extruders = <<>>]
          [] f = "too_close" -> [j EXCEPT !.complete_objects = TRUE]
          [] f = "too_tall" -> [j EXCEPT !.complete_objects = TRUE]
          [] f = "avoid_crossing" ->
                 [j EXCEPT !.avoid_crossing_perimeters = TRUE,
                           !.avoid_crossing_curled_overhangs = TRUE]
          [] f = "machine_limits" ->
                 [j EXCEPT !.machine_limits_usage = "emit_to_gcode",
                           !.gcode_flavor = "klipper"]
          [] f = "wipe_tower_diameters" ->
                 [j EXCEPT !.has_wipe_tower = TRUE, !.extruders = <<1, 2>>,
                           !.nozzle_diameter = <<4, 6>>]
          [] f = "wipe_tower_flavor" ->
                 [j EXCEPT !.has_wipe_tower = TRUE, !.gcode_flavor = "mach3"]
          [] f = "wipe_tower_volumetric_e" ->
                 [j EXCEPT !.has_wipe_tower = TRUE, !.use_volumetric_e = TRUE]
          [] f = "absolute_e" -> [j EXCEPT !.use_relative_e_distances = FALSE]
          [] f = "first_layer_height" -> [j EXCEPT !.first_layer_height = 7]
          [] f = "g92_e0_missing" -> [j EXCEPT !.layer_gcode_resets_extruder = FALSE]
          [] f = "spiral_vase_copies" ->
                 [obj([o EXCEPT !.copies = 2]) EXCEPT !.spiral_vase = TRUE]
          [] f = "spiral_vase_regions" ->
                 [obj([o EXCEPT !.regions = 2]) EXCEPT !.spiral_vase = TRUE]
          [] f = "exceeds_build_height" -> obj([o EXCEPT !.layers = <<6, 8>>])
          [] f = "last_layer_exceeds" -> obj([o EXCEPT !.layers = <<4, 7>>])
          [] f = "organic_layering" ->
                 obj([o EXCEPT !.support_material = TRUE,
                               !.support_material_style = "organic",
                               !.has_custom_layering = TRUE, !.layers_fixed = FALSE])
          [] f = "wipe_tower_raft_layers" ->
                 [obj([o EXCEPT !.raft_layers = o.raft_layers + 2]) EXCEPT
                      !.has_wipe_tower = TRUE]
          [] f = "support_nozzles" ->
                 [obj([o EXCEPT !.support_material = TRUE,
                                !.support_material_extruder = 0,
                                !.support_material_interface_extruder = 0]) EXCEPT
                      !.extruders = <<1, 2>>, !.nozzle_diameter = <<4, 6>>]
          [] f = "wipe_tower_soluble" ->
                 [obj([o EXCEPT !.support_material = TRUE,
                                !.support_material_contact_distance = 0]) EXCEPT
                      !.has_wipe_tower = TRUE]
          [] f = "layer_height" -> obj([o EXCEPT !.layer_height = 5])
          [] f = "width_too_low" -> obj([o EXCEPT !.extrusion_width = 2])
          [] f = "width_excessive" -> obj([o EXCEPT !.region_extrusion_width = 18])

\* The arrangement with the fault f: every instance on one spot, or the first
\* instance above the clearance height.
ArrangedWithFault(s, f) ==
    IF f = "too_close"
    THEN [s EXCEPT !.inst = [k \in DOMAIN s.inst |-> [s.inst[k] EXCEPT !.x = 0]]]
    ELSE IF f = "too_tall" /\ s.inst # <<>>
    THEN [s EXCEPT !.inst[1].h = s.height + 1]
    ELSE s

\* Print::apply() with one more setting changed.
ChangeSetting ==
    /\ job.changes < MaxFaults
    /\ \/ \E f \in PrintFaults :
              /\ job' = [WithFault(job, f, 0) EXCEPT !.changes = @ + 1]
              /\ seq' = ArrangedWithFault(seq, f)
       \/ \E f \in ObjectFaults : \E i \in DOMAIN job.objects :
              /\ job' = [WithFault(job, f, i) EXCEPT !.changes = @ + 1]
              /\ seq' = seq
    /\ last' = NoCall
    /\ UNCHANGED <<pstate, ostate, canceled, wk, aborted, coll, fg>>

\* sequential_print_horizontal_clearance_valid is called, with an output vector
\* holding `polygons` when diagnostic, without one otherwise.
CheckHorizontal(diagnostic, polygons) ==
    LET r == sequential_print_horizontal_clearance_valid(seq, diagnostic, polygons)
    IN  /\ seq.inst # <<>>
        /\ last' = [op |-> "horizontal", diagnostic |-> diagnostic,
                    valid |-> r.valid, polygons |-> r.polygons]
        /\ UNCHANGED <<pstate, ostate, canceled, wk, aborted, coll, job, seq, fg>>

\* sequential_print_vertical_clearance_valid is called.
CheckVertical ==
    /\ seq.inst # <<>>
    /\ last' = [op |-> "vertical", valid |-> sequential_print_vertical_clearance_valid(seq)]
    /\ UNCHANGED <<pstate, ostate, canceled, wk, aborted, coll, job, seq, fg>>

\* The caller takes the state mutex and calls Print::invalidate_step(step).
FgCall(step) ==
    /\ MutexFree(fg)
    /\ fg' = [pc |-> "called", step |-> step, ret |-> FALSE]
    /\ last' = NoCall
    /\ UNCHANGED <<pstate, ostate, canceled, wk, aborted, coll, job, seq>>

\* bool invalidated = Inherited::invalidate_step(step);
FgInvalidateOwn ==
    /\ fg.pc = "called"
    /\ LET r == StateInvalidate(pstate, fg.step)
       IN  /\ pstate' = r.st
           /\ fg' = [fg EXCEPT !.pc = "own", !.ret = r.changed]
    /\ last' = NoCall
    /\ UNCHANGED <<ostate, canceled, wk, aborted, coll, job, seq>>

\* if (step != psGCodeExport) invalidated |= Inherited::invalidate_step(psGCodeExport);
\* return invalidated; the caller releases the state mutex.
FgCascade ==
    /\ fg.pc = "own"
    /\ LET r == IF fg.step # psGCodeExport
                THEN StateInvalidate(pstate, psGCodeExport)
                ELSE [st |-> pstate, changed |-> FALSE]
       IN  /\ pstate' = r.st
           /\ last' = [op |-> "invalidate_step", arg |-> fg.step,
                       ret |-> (fg.ret \/ r.changed)]
    /\ fg' = FgIdle
    /\ aborted' = "none"
    /\ wk' = [w \in Workers |-> Disturbed(w)]
    /\ UNCHANGED <<ostate, canceled, coll, job, seq>>

\* What a reader finds, given the call the foreground is inside of: "half" when
\* the step of the call reads Invalidated while the export step reads Done.
Observed(p, f) ==
    IF /\ f.pc = "own"
       /\ f.step # psGCodeExport
       /\ p[f.step] = INVALID
       /\ p[psGCodeExport] = DONE
    THEN "half" ELSE "whole"

\* A reader takes the state mutex and reads the statuses of the job steps.
ReadStatus ==
    /\ MutexFree(fg)
    /\ last' = [op |-> "read", seen |-> Observed(pstate, fg)]
    /\ UNCHANGED <<pstate, ostate, canceled, wk, aborted, coll, job, seq, fg>>

-----------------------------------------------------------------------------
(* The executor: Print::process() followed by Print::export_gcode().       *)

At(w, pos) == wk[w].pc = pos
Move(w, pos) == wk' = [wk EXCEPT ![w].pc = pos]
MoveRun(w, pos, run) == wk' = [wk EXCEPT ![w] = [@ EXCEPT !.pc = pos, !.run = run]]

\* An exception leaves process(): the stage is abandoned where it stands.
Unwind(w, step, how) ==
    /\ wk' = [wk EXCEPT ![w] = [Idle EXCEPT !.outcome = how]]
    /\ aborted' = IF how = "canceled" THEN step ELSE aborted

\* Mutant of EntityStageSteps: the supports are generated before the support
\* spots are searched.
EntityStageSteps_SupportsBeforeSpots(k) ==
    CASE k = 1 -> {posSlice, posPerimeters}
      [] k = 2 -> {posInfill}
      [] k = 3 -> {posIroning}
      [] k = 4 -> {posSupportMaterial}
      [] k = 5 -> {posSupportSpotsSearch}
      [] k = 6 -> {posEstimateCurledExtrusions}

\* The steps an entity-level stage callable of process() completes.
EntityStageSteps(k) ==
    CASE k = 1 -> {posSlice, posPerimeters}          \* obj->make_perimeters()
      [] k = 2 -> {posInfill}                        \* obj->infill()
      [] k = 3 -> {posIroning}                       \* obj->ironing()
      [] k = 4 -> {posSupportSpotsSearch}            \* obj->generate_support_spots()
      [] k = 5 -> {posSupportMaterial}               \* obj->generate_support_material()
      [] k = 6 -> {posEstimateCurledExtrusions}      \* obj->estimate_curled_extrusions()

\* The executor is called (the signal is down).
StartProcess(w) ==
    /\ At(w, "idle")
    /\ ~canceled
    /\ wk' = [wk EXCEPT ![w] = [Idle EXCEPT !.pc = "entities", !.k = 1, !.i = 1,
                                            !.objects_end = Len(ostate),
                                            !.outcome = "running"]]
    /\ last' = NoCall
    /\ UNCHANGED <<pstate, ostate, canceled, aborted, coll, job, seq, fg>>

\* One iteration of a loop `for (PrintObject *obj : m_objects) obj->stage()`.
RunEntityStage(w) ==
    /\ At(w, "entities")
    /\ MutexFree(fg)
    /\ wk[w].i <= wk[w].objects_end
    /\ wk[w].i <= Len(ostate)
    /\ ostate' = [ostate EXCEPT ![wk[w].i] =
                     [s \in PrintObjectSteps |->
                         IF s \in EntityStageSteps(wk[w].k) THEN DONE ELSE @[s]]]
    /\ wk' = [wk EXCEPT ![w].i = @ + 1]
    /\ last' = NoCall
    /\ UNCHANGED <<pstate, canceled, aborted, coll, job, seq, fg>>

\* The loop over m_objects of one stage ends; the next statement follows.
NextEntityStage(w) ==
    /\ At(w, "entities")
    /\ wk[w].i > wk[w].objects_end
    /\ wk' = [wk EXCEPT ![w] =
                 IF wk[w].k = 4
                 THEN [@ EXCEPT !.pc = "alert", !.k = 0, !.i = 0, !.objects_end = 0]
                 ELSE IF wk[w].k = 6
                 THEN [@ EXCEPT !.pc = "wt_start", !.k = 0, !.i = 0, !.objects_end = 0]
                 ELSE [@ EXCEPT !.k = @ + 1, !.i = 1, !.objects_end = Len(ostate)]]
    /\ last' = NoCall
    /\ UNCHANGED <<pstate, ostate, canceled, aborted, coll, job, seq, fg>>

\* alert_when_supports_needed(): if (set_started(psAlertWhenSupportsNeeded)) {
AlertStart(w) ==
    /\ At(w, "alert")
    /\ MutexFree(fg)
    /\ LET r == StateSetStarted(pstate, psAlertWhenSupportsNeeded)
       IN  /\ pstate' = r.st
           /\ wk' = [wk EXCEPT ![w] =
                        IF r.ok THEN [@ EXCEPT !.pc = "alert_body", !.run = "running"]
                        ELSE [@ EXCEPT !.pc = "entities", !.k = 5, !.i = 1,
                                       !.objects_end = Len(ostate)]]
    /\ last' = NoCall
    /\ UNCHANGED <<ostate, canceled, aborted, coll, job, seq, fg>>

\* ... the alert message is built; set_done(psAlertWhenSupportsNeeded); }
AlertDone(w) ==
    /\ At(w, "alert_body")
    /\ MutexFree(fg)
    /\ pstate' = StateSetDone(pstate, psAlertWhenSupportsNeeded)
    /\ wk' = [wk EXCEPT ![w] = [@ EXCEPT !.pc = "entities", !.k = 5, !.i = 1,
                                         !.objects_end = Len(ostate), !.run = "none"]]
    /\ last' = NoCall
    /\ UNCHANGED <<ostate, canceled, aborted, coll, job, seq, fg>>

\* Mutant of WipeTowerGate: the body is entered whatever set_started returns.
WipeTowerGate_Unguarded(ok) == TRUE

\* if (this->set_started(psWipeTower)) { ... }: whether the body is entered.
WipeTowerGate(ok) == ok

\* if (this->set_started(psWipeTower)) { m_wipe_tower_data.clear(); m_tool_ordering.clear();
WipeTowerStart(w) ==
    /\ At(w, "wt_start")
    /\ MutexFree(fg)
    /\ LET r == StateSetStarted(pstate, psWipeTower)
       IN  /\ pstate' = r.st
           /\ IF WipeTowerGate(r.ok)
              THEN /\ MoveRun(w, "wt_body", "running")
                   /\ coll' = Cleared(Aged(coll, WipeTowerCollections),
                                      WipeTowerCollections)
              ELSE /\ Move(w, "sb_start")
                   /\ UNCHANGED coll
    /\ last' = NoCall
    /\ UNCHANGED <<ostate, canceled, aborted, job, seq, fg>>

\* if (has_wipe_tower()) _make_wipe_tower();
\* else if (! config().complete_objects) { m_tool_ordering = ToolOrdering(...); ... }
WipeTowerBody(w) ==
    /\ At(w, "wt_body")
    /\ \E has_wipe_tower \in BOOLEAN, complete_objects \in BOOLEAN :
           IF has_wipe_tower THEN Move(w, "mwt_begin")
           ELSE IF ~complete_objects THEN Move(w, "wt_ordering")
           ELSE MoveRun(w, "wt_done", "complete")
    /\ last' = NoCall
    /\ UNCHANGED <<pstate, ostate, canceled, aborted, coll, job, seq, fg>>

\* Mutant of EmptyOrderingRaises: the empty tool ordering is not reported.
EmptyOrderingRaises_Never(empty) == FALSE

\* if (m_tool_ordering.empty() || last_extruder() == unsigned(-1)) throw SlicingError
EmptyOrderingRaises(empty) == empty

\* m_tool_ordering = ToolOrdering(*this, -1, false); the print may turn out empty.
WipeTowerOrdering(w) ==
    /\ At(w, "wt_ordering")
    /\ \E empty \in BOOLEAN :
           /\ IF EmptyOrderingRaises(empty)
              THEN Unwind(w, psWipeTower, "error")
              ELSE /\ MoveRun(w, "wt_done", IF empty THEN "error" ELSE "complete")
                   /\ UNCHANGED aborted
           /\ coll' = IF empty THEN coll ELSE Filled(coll, "m_tool_ordering")
    /\ last' = NoCall
    /\ UNCHANGED <<pstate, ostate, canceled, job, seq, fg>>

\* m_wipe_tower_data.tool_ordering.has_wipe_tower(): a print without objects
\* has no layers and hence no tower.
ToolOrderingHasWipeTower == IF job.objects = <<>> THEN {FALSE} ELSE BOOLEAN

\* _make_wipe_tower() up to the cancellation point: the data is cleared, the
\* tool ordering is built; returns early when there is no tower to generate.
MakeWipeTowerBegin(w) ==
    /\ At(w, "mwt_begin")
    /\ \E tower \in ToolOrderingHasWipeTower :
           IF tower THEN Move(w, "mwt_check")
           ELSE MoveRun(w, "wt_done", "complete")
    /\ coll' = Filled(Cleared(coll, {"m_wipe_tower_data"}), "m_wipe_tower_data")
    /\ last' = NoCall
    /\ UNCHANGED <<pstate, ostate, canceled, aborted, job, seq, fg>>

\* Mutant of throw_if_canceled: the raised signal is not acted upon.
throw_if_canceled_Ignored(flag) == FALSE

\* this->throw_if_canceled(): whether the CanceledException is thrown.
throw_if_canceled(flag) == flag

\* The layers of the tool ordering and the last extruder of its priming order.
layer_tools == job.tool_ordering.layer_tools
all_extruders_back ==
    job.tool_ordering.all_extruders[Len(job.tool_ordering.all_extruders)]

\* this->throw_if_canceled() of _make_wipe_tower(), the only one of the function;
\* then the WipeTower is set up and
\* unsigned int current_extruder_id = tool_ordering.all_extruders().back();
MakeWipeTowerCheck(w) ==
    /\ At(w, "mwt_check")
    /\ IF throw_if_canceled(canceled)
       THEN Unwind(w, psWipeTower, "canceled")
       ELSE /\ wk' = [wk EXCEPT ![w] =
                         [@ EXCEPT !.pc = "mwt_plan", !.layer = 1,
                                   !.current_extruder_id = all_extruders_back]]
            /\ UNCHANGED aborted
    /\ last' = NoCall
    /\ UNCHANGED <<pstate, ostate, canceled, coll, job, seq, fg>>

\* Mutant of NeedsToolChange: only a differing extruder asks for a tool change.
NeedsToolChange_OnlyWhenDiffering(first_layer, extruder_id, current) ==
    extruder_id # current

\* if ((first_layer && extruder_id == all_extruders().back())
\*     || extruder_id != current_extruder_id)
NeedsToolChange(first_layer, extruder_id, current) ==
    (first_layer /\ extruder_id = all_extruders_back) \/ extruder_id # current

\* WipingExtrusions::mark_wiping_extrusions: the volumes that may be left to
\* purge on the tower after volume_to_wipe was offered to the infills and
\* objects; anything from nothing to the whole of it is absorbed, and the
\* volume left is not negative.
mark_wiping_extrusions(volume_to_wipe) == 0..Max2(0, volume_to_wipe)

\* Mutant of AddBackMinimalPurge: the forced amount is not added back.
AddBackMinimalPurge_Dropped(volume_to_wipe, extruder_id) == volume_to_wipe

\* volume_to_wipe += filament_minimal_purge_on_wipe_tower.get_at(extruder_id);
AddBackMinimalPurge(volume_to_wipe, extruder_id) ==
    volume_to_wipe + job.filament_minimal_purge_on_wipe_tower[extruder_id]

\* Mutant of PlanExtruders: current_extruder_id is not advanced by a tool change.
RECURSIVE PlanExtruders_CurrentKept(_, _, _, _, _)
PlanExtruders_CurrentKept(extruders, k, first_layer, current, changes) ==
    IF k > Len(extruders)
    THEN {[current_extruder_id |-> current, tool_changes |-> changes]}
    ELSE LET extruder_id == extruders[k]
         IN  IF NeedsToolChange(first_layer, extruder_id, current)
             THEN UNION {
                      PlanExtruders_CurrentKept(extruders, k + 1, first_layer, current,
                          Append(changes,
                                 [from |-> current, to |-> extruder_id,
                                  volume |-> AddBackMinimalPurge(left, extruder_id)])) :
                      left \in mark_wiping_extrusions(
                                  job.wipe_volumes[current][extruder_id]
                                  - job.filament_minimal_purge_on_wipe_tower[extruder_id])}
             ELSE PlanExtruders_CurrentKept(extruders, k + 1, first_layer, current, changes)

\* for (const auto extruder_id : layer_tools.extruders) ...: the outcomes of the
\* loop from position k of the extruders on, one for every volume the wiping
\* extrusions may leave; each is the current extruder and the tool changes
\* requested of the WipeTower.
RECURSIVE PlanExtruders(_, _, _, _, _)
PlanExtruders(extruders, k, first_layer, current, changes) ==
    IF k > Len(extruders)
    THEN {[current_extruder_id |-> current, tool_changes |-> changes]}
    ELSE LET extruder_id == extruders[k]
         IN  IF NeedsToolChange(first_layer, extruder_id, current)
             THEN UNION {
                      PlanExtruders(extruders, k + 1, first_layer, extruder_id,
                          Append(changes,
                                 [from |-> current, to |-> extruder_id,
                                  volume |-> AddBackMinimalPurge(left, extruder_id)])) :
                      left \in mark_wiping_extrusions(
                                  job.wipe_volumes[current][extruder_id]
                                  - job.filament_minimal_purge_on_wipe_tower[extruder_id])}
             ELSE PlanExtruders(extruders, k + 1, first_layer, current, changes)

\* Mutant of StopsPlanning: the loop runs to the last layer.
StopsPlanning_AtLastLayer(k) == k = Len(layer_tools)

\* if (&layer_tools == &tool_ordering.back()
\*     || (&layer_tools + 1)->wipe_tower_partitions == 0) break;
StopsPlanning(k) ==
    k = Len(layer_tools) \/ layer_tools[k + 1].wipe_tower_partitions = 0

\* One iteration of `for (auto &layer_tools : tool_ordering.layer_tools())`: a
\* layer without the tower is passed over; a layer with it is entered into the
\* plan, the tool changes of its extruders are requested, and the loop is left
\* behind the last layer the tower is needed for.  No cancellation point.
MakeWipeTowerPlan(w) ==
    /\ At(w, "mwt_plan")
    /\ LET k  == wk[w].layer
           lt == layer_tools[k]
       IN  IF ~lt.has_wipe_tower
           THEN wk' = [wk EXCEPT ![w] =
                          IF k = Len(layer_tools)
                          THEN [@ EXCEPT !.pc = "mwt_purge", !.layer = 0]
                          ELSE [@ EXCEPT !.layer = k + 1]]
           ELSE \E r \in PlanExtruders(lt.extruders, 1, k = 1,
                                       wk[w].current_extruder_id, <<>>) :
                    wk' = [wk EXCEPT ![w] =
                              [@ EXCEPT !.pc = IF StopsPlanning(k) THEN "mwt_purge"
                                               ELSE "mwt_plan",
                                        !.layer = IF StopsPlanning(k) THEN 0 ELSE k + 1,
                                        !.current_extruder_id = r.current_extruder_id,
                                        !.plan = Append(@, [z |-> lt.print_z,
                                                            tool_changes |-> r.tool_changes])]]
    /\ last' = NoCall
    /\ UNCHANGED <<pstate, ostate, canceled, aborted, coll, job, seq, fg>>

\* The height the generated tower stands at: that of the last layer of its plan.
TowerHeight(plan) == IF plan = <<>> THEN 0 ELSE plan[Len(plan)].z

\* Mutant of FinalPurgeHeight: the final purge is left at the top of the tower.
FinalPurgeHeight_AtTower(plan, layer_finished) == TowerHeight(plan)

\* The height of the tower when tool_change(-1) unloads the filament:
\* if (tool_ordering.back().wipe_tower_partitions > 0) {
\*     if (wipe_tower.layer_finished()) set_layer(back().print_z + layer_height, ...);
\* } else set_layer(back().print_z, ...);
\* with layer_height = m_objects.front()->config().layer_height.
FinalPurgeHeight(plan, layer_finished) ==
    LET back == layer_tools[Len(layer_tools)]
    IN  IF back.wipe_tower_partitions > 0
        THEN IF layer_finished THEN back.print_z + job.objects[1].layer_height
             ELSE TowerHeight(plan)
        ELSE back.print_z

\* wipe_tower.generate(m_wipe_tower_data.tool_changes); the final purge is
\* scheduled; whether the last layer of the tower is full is the WipeTower's to tell.
MakeWipeTowerPurge(w) ==
    /\ At(w, "mwt_purge")
    /\ \E layer_finished \in BOOLEAN :
           wk' = [wk EXCEPT ![w] =
                     [@ EXCEPT !.pc = "mwt_end",
                               !.final_purge =
                                   Append(@, FinalPurgeHeight(wk[w].plan, layer_finished))]]
    /\ coll' = Filled(coll, "m_wipe_tower_data")
    /\ last' = NoCall
    /\ UNCHANGED <<pstate, ostate, canceled, aborted, job, seq, fg>>

\* used_filament and number_of_toolchanges are recorded; _make_wipe_tower() returns.
MakeWipeTowerEnd(w) ==
    /\ At(w, "mwt_end")
    /\ wk' = [wk EXCEPT ![w] =
                 [@ EXCEPT !.pc = "wt_done", !.run = "complete",
                           !.current_extruder_id = 0, !.plan = <<>>,
                           !.final_purge = <<>>]]
    /\ last' = NoCall
    /\ UNCHANGED <<pstate, ostate, canceled, aborted, coll, job, seq, fg>>

\* this->set_done(psWipeTower); }
WipeTowerDone(w) ==
    /\ At(w, "wt_done")
    /\ MutexFree(fg)
    /\ pstate' = StateSetDone(pstate, psWipeTower)
    /\ MoveRun(w, "sb_start", "none")
    /\ last' = NoCall
    /\ UNCHANGED <<ostate, canceled, aborted, coll, job, seq, fg>>

\* if (this->set_started(psSkirtBrim)) { m_skirt.clear(); ...
\*     if (has_skirt() && draft_shield) _make_skirt();
SkirtBrimStart(w) ==
    /\ At(w, "sb_start")
    /\ MutexFree(fg)
    /\ LET r == StateSetStarted(pstate, psSkirtBrim)
       IN  /\ pstate' = r.st
           /\ IF r.ok
              THEN /\ \E has_skirt \in BOOLEAN, draft_shield \in BOOLEAN :
                          wk' = [wk EXCEPT ![w] =
                                    IF has_skirt /\ draft_shield
                                    THEN [@ EXCEPT !.pc = "ms_points", !.ret = "sb_brim",
                                                   !.ds = TRUE, !.run = "running"]
                                    ELSE [@ EXCEPT !.pc = "sb_brim", !.ds = draft_shield,
                                                   !.run = "running"]]
                   /\ coll' = Cleared(Aged(coll, SkirtBrimCollections),
                                      {"m_skirt", "m_skirt_convex_hull",
                                       "m_first_layer_convex_hull"})
              ELSE /\ Move(w, "ex_start")
                   /\ UNCHANGED coll
    /\ last' = NoCall
    /\ UNCHANGED <<ostate, canceled, aborted, job, seq, fg>>

\* Mutant of FewPointsReturn: a skirt is drawn around any point set.
FewPointsReturn_Never(few_points) == FALSE

\* if (points.size() < 3) return;   // At least three points required
FewPointsReturn(few_points) == few_points

\* _make_skirt() up to `if (points.size() < 3) return;`
MakeSkirtPoints(w) ==
    /\ At(w, "ms_points")
    /\ \E few_points \in BOOLEAN :
           wk' = [wk EXCEPT ![w] =
                     IF FewPointsReturn(few_points)
                     THEN [@ EXCEPT !.pc = wk[w].ret, !.ret = "none", !.few = few_points]
                     ELSE [@ EXCEPT !.pc = "ms_check", !.few = few_points]]
    /\ last' = NoCall
    /\ UNCHANGED <<pstate, ostate, canceled, aborted, coll, job, seq, fg>>

\* The extruders the skirt is drawn with, and the length one loop extrudes
\* with the extruder at a position of that list.
SkirtExtruders == 1..Len(job.extruders)
LoopLength(idx) == job.skirt_loop_length[idx]

\* this->throw_if_canceled() before the convex hull of the points is computed;
\* size_t n_skirts = m_config.skirts.value (positive whenever has_skirt());
\* std::vector<coordf_t> extruded_length(extruders.size(), 0.); the loop counter
\* starts at n_skirts and extruder_idx at the first extruder.
MakeSkirtCheck(w) ==
    /\ At(w, "ms_check")
    /\ IF throw_if_canceled(canceled)
       THEN Unwind(w, psSkirtBrim, "canceled")
       ELSE /\ \E n_skirts \in 1..MaxSkirtLoops :
                   wk' = [wk EXCEPT ![w] =
                             [@ EXCEPT !.pc = "ms_loop", !.loops = n_skirts,
                                       !.extruder_idx = 1, !.distance = 0,
                                       !.extruded_length = [e \in SkirtExtruders |-> 0],
                                       !.emitted = [e \in SkirtExtruders |-> 0]]]
            /\ UNCHANGED aborted
    /\ last' = NoCall
    /\ UNCHANGED <<pstate, ostate, canceled, coll, job, seq, fg>>

\* The count of loops appended per extruder is followed up to this number.
MaxEmitted == MaxLength + 1

\* Mutant of KeepLooping: the last nominal loop is never repeated.
KeepLooping_Never(i) == FALSE

\* if (extruded_length[extruder_idx] < min_skirt_length) { if (i == 1) ++ i; }
KeepLooping(i) == i = 1

\* The loop appended by one iteration is accounted to the active extruder:
\* if (m_config.min_skirt_length.value > 0) {
\*     extruded_length[extruder_idx] += loop length * extruders_e_per_mm[extruder_idx];
\*     if (extruded_length[extruder_idx] < min_skirt_length) { if (i == 1) ++ i; }
\*     else if (extruder_idx + 1 < extruders.size()) ++ extruder_idx;
\* }
\* followed by the `-- i` of the for statement.
AccountLoop(l) ==
    LET idx     == l.extruder_idx
        emitted == [l.emitted EXCEPT ![idx] = Min2(@ + 1, MaxEmitted)]
    IN  IF job.min_skirt_length > 0
        THEN LET len == [l.extruded_length EXCEPT ![idx] = @ + LoopLength(idx)]
             IN  IF len[idx] < job.min_skirt_length
                 THEN [l EXCEPT !.extruded_length = len, !.emitted = emitted,
                                !.loops = IF KeepLooping(l.loops) THEN @ ELSE @ - 1]
                 ELSE [l EXCEPT !.extruded_length = len, !.emitted = emitted,
                                !.extruder_idx = IF idx + 1 <= Len(job.extruders)
                                                 THEN idx + 1 ELSE idx,
                                !.loops = @ - 1]
        ELSE [l EXCEPT !.emitted = emitted, !.loops = @ - 1]

\* distance += float(scale_(spacing));
NextDistance(d) == (d + 1) % DistanceSteps

\* One iteration of the skirt loop: throw_if_canceled(), then the offset loop is
\* appended to m_skirt and accounted, or the loop is left when the offset
\* vanishes (if (loops.empty()) break;).
MakeSkirtLoop(w) ==
    /\ At(w, "ms_loop")
    /\ wk[w].loops > 0
    /\ IF throw_if_canceled(canceled)
       THEN Unwind(w, psSkirtBrim, "canceled") /\ UNCHANGED coll
       ELSE /\ \E vanished \in BOOLEAN :
                   /\ wk' = [wk EXCEPT ![w] =
                                IF vanished
                                THEN [@ EXCEPT !.pc = "ms_end", !.loops = 0,
                                               !.distance = NextDistance(@),
                                               !.vanished = TRUE]
                                ELSE [AccountLoop(@) EXCEPT
                                          !.distance = NextDistance(@)]]
                   /\ coll' = IF vanished THEN coll ELSE Filled(coll, "m_skirt")
            /\ UNCHANGED aborted
    /\ last' = NoCall
    /\ UNCHANGED <<pstate, ostate, canceled, job, seq, fg>>

\* The loop counter ran out.
MakeSkirtLoopEnd(w) ==
    /\ At(w, "ms_loop")
    /\ wk[w].loops = 0
    /\ Move(w, "ms_end")
    /\ last' = NoCall
    /\ UNCHANGED <<pstate, ostate, canceled, aborted, coll, job, seq, fg>>

\* m_skirt.reverse(); the skirt hull is recorded; _make_skirt() returns.
MakeSkirtEnd(w) ==
    /\ At(w, "ms_end")
    /\ wk' = [wk EXCEPT ![w] = [@ EXCEPT !.pc = wk[w].ret, !.ret = "none", !.loops = 0,
                                         !.extruder_idx = 0, !.extruded_length = <<>>,
                                         !.emitted = <<>>, !.distance = 0,
                                         !.vanished = FALSE]]
    /\ coll' = Filled(coll, "m_skirt_convex_hull")
    /\ last' = NoCall
    /\ UNCHANGED <<pstate, ostate, canceled, aborted, job, seq, fg>>

\* m_brim.clear(); if (has_brim()) m_brim = make_brim(*this, make_try_cancel(), ...);
\* if (has_skirt() && ! draft_shield) _make_skirt();
\* The brim generator is handed the cancellation callback: with the signal up it
\* may or may not poll it.
SkirtBrimBrim(w) ==
    /\ At(w, "sb_brim")
    /\ \E has_brim \in BOOLEAN, polls \in BOOLEAN, has_skirt \in BOOLEAN :
           IF has_brim /\ polls /\ canceled
           THEN /\ Unwind(w, psSkirtBrim, "canceled")
                /\ coll' = Cleared(coll, {"m_brim", "m_first_layer_convex_hull"})
           ELSE /\ wk' = [wk EXCEPT ![w] =
                             IF has_skirt /\ ~wk[w].ds
                             THEN [@ EXCEPT !.pc = "ms_points", !.ret = "sb_finalize"]
                             ELSE [@ EXCEPT !.pc = "sb_finalize"]]
                /\ coll' = LET c == Cleared(coll, {"m_brim", "m_first_layer_convex_hull"})
                           IN  IF has_brim THEN Filled(c, "m_brim") ELSE c
                /\ UNCHANGED aborted
    /\ last' = NoCall
    /\ UNCHANGED <<pstate, ostate, canceled, job, seq, fg>>

\* this->finalize_first_layer_convex_hull();
SkirtBrimFinalize(w) ==
    /\ At(w, "sb_finalize")
    /\ wk' = [wk EXCEPT ![w] = [@ EXCEPT !.pc = "sb_done", !.ds = FALSE,
                                         !.run = "complete"]]
    /\ coll' = Filled(coll, "m_first_layer_convex_hull")
    /\ last' = NoCall
    /\ UNCHANGED <<pstate, ostate, canceled, aborted, job, seq, fg>>

\* this->set_done(psSkirtBrim); } process() returns, export_gcode() follows.
SkirtBrimDone(w) ==
    /\ At(w, "sb_done")
    /\ MutexFree(fg)
    /\ pstate' = StateSetDone(pstate, psSkirtBrim)
    /\ wk' = [wk EXCEPT ![w] = [@ EXCEPT !.pc = "ex_start", !.run = "none",
                                         !.few = FALSE]]
    /\ last' = NoCall
    /\ UNCHANGED <<ostate, canceled, aborted, coll, job, seq, fg>>

\* export_gcode(): the export stage is a no-op when the export step is not
\* startable, otherwise gcode->do_export() runs.
ExportStart(w) ==
    /\ At(w, "ex_start")
    /\ MutexFree(fg)
    /\ LET r == StateSetStarted(pstate, psGCodeExport)
       IN  /\ pstate' = r.st
           /\ wk' = [wk EXCEPT ![w] =
                        IF r.ok THEN [@ EXCEPT !.pc = "ex_write", !.run = "running"]
                        ELSE [Idle EXCEPT !.outcome = "finished"]]
    /\ last' = NoCall
    /\ UNCHANGED <<ostate, canceled, aborted, coll, job, seq, fg>>

\* The export write, behind its cancellation point.
ExportWrite(w) ==
    /\ At(w, "ex_write")
    /\ IF canceled
       THEN Unwind(w, psGCodeExport, "canceled")
       ELSE MoveRun(w, "ex_done", "complete") /\ UNCHANGED aborted
    /\ last' = NoCall
    /\ UNCHANGED <<pstate, ostate, canceled, coll, job, seq, fg>>

\* The export step is marked Done; the executor returns.
ExportDone(w) ==
    /\ At(w, "ex_done")
    /\ MutexFree(fg)
    /\ pstate' = StateSetDone(pstate, psGCodeExport)
    /\ wk' = [wk EXCEPT ![w] = [Idle EXCEPT !.outcome = "finished"]]
    /\ last' = NoCall
    /\ UNCHANGED <<ostate, canceled, aborted, coll, job, seq, fg>>

-----------------------------------------------------------------------------
(* Specifications.                                                         *)

Worker(w) ==
    \/ StartProcess(w)
    \/ RunEntityStage(w)
    \/ NextEntityStage(w)
    \/ AlertStart(w)
    \/ AlertDone(w)
    \/ WipeTowerStart(w)
    \/ WipeTowerBody(w)
    \/ WipeTowerOrdering(w)
    \/ MakeWipeTowerBegin(w)
    \/ MakeWipeTowerCheck(w)
    \/ MakeWipeTowerPlan(w)
    \/ MakeWipeTowerPurge(w)
    \/ MakeWipeTowerEnd(w)
    \/ WipeTowerDone(w)
    \/ SkirtBrimStart(w)
    \/ MakeSkirtPoints(w)
    \/ MakeSkirtCheck(w)
    \/ MakeSkirtLoop(w)
    \/ MakeSkirtLoopEnd(w)
    \/ MakeSkirtEnd(w)
    \/ SkirtBrimBrim(w)
    \/ SkirtBrimFinalize(w)
    \/ SkirtBrimDone(w)
    \/ ExportStart(w)
    \/ ExportWrite(w)
    \/ ExportDone(w)

Foreground ==
    \/ \E step \in PrintSteps : InvalidateStep(step)
    \/ \E opt_keys \in SingleKeyBatches : ApplyConfig(opt_keys)
    \/ Clear
    \/ Cancel
    \/ ResetCancel

\* One background worker and the foreground actor; the configuration changes
\* one key at a time.
Next == Foreground \/ Worker(1)

Spec == InitStatus /\ [][Next]_vars

\* Runs of the executor, invalidated and canceled by the foreground, with the
\* contents of the result collections followed.
NextRerun ==
    \/ \E step \in PrintSteps : InvalidateStep(step)
    \/ Cancel
    \/ ResetCancel
    \/ Worker(1)

SpecRerun == Init /\ [][NextRerun]_vars

\* Runs of the executor alone over the skirt configurations, and the same runs
\* of a worker thread that is always scheduled again.
NextSkirt == Worker(1)

SpecSkirt == InitSkirt /\ [][NextSkirt]_vars

\* Runs of the executor alone over the tool orderings.
NextTower == Worker(1)

SpecTower == InitTower /\ [][NextTower]_vars

SpecSkirtLive == InitSkirt /\ [][NextSkirt]_vars /\ WF_vars(Worker(1))

\* The foreground inside Print::invalidate_step, statement by statement, next to
\* the background worker and a reader of the statuses.
NextLocked ==
    \/ \E step \in PrintSteps : FgCall(step)
    \/ FgInvalidateOwn
    \/ FgCascade
    \/ ReadStatus
    \/ Worker(1)

SpecLocked == InitStatus /\ [][NextLocked]_vars

\* validate() called while the background worker runs and the foreground
\* invalidates steps.
NextQuery ==
    \/ Validate
    \/ \E step \in PrintSteps : InvalidateStep(step)
    \/ Worker(1)

SpecQuery == Init /\ [][NextQuery]_vars

\* The clearance checks and validate() on the arrangements of a sequential print.
NextSequential ==
    \/ Validate
    \/ CheckHorizontal(FALSE, <<>>)
    \/ \E polygons \in LeftoverPolygons : CheckHorizontal(TRUE, polygons)
    \/ CheckVertical

SpecSequential == InitSequential /\ [][NextSequential]_vars

\* The settings of a valid job are changed one after the other and the job is
\* validated.
NextValidate == ChangeSetting \/ Validate

SpecValidate == Init /\ [][NextValidate]_vars

\* validate() called on the jobs that exercise single checks of it.
NextChecks == Validate

SpecChecks == InitChecks /\ [][NextChecks]_vars

\* Configuration changes of several keys at once, between uninterrupted runs of
\* the one background worker.
NextConfig ==
    \/ \E opt_keys \in Batches : ApplyConfig(opt_keys)
    \/ Clear
    \/ Worker(1)

SpecConfig == InitStatus /\ [][NextConfig]_vars

\* Print::clear() called whatever the executor is at: it takes the state mutex,
\* invalidate_all_steps() writes the statuses, every PrintObject is deleted and
\* m_objects is emptied.  process() takes no lock around its loops over m_objects.
\* The call is followed while the executor is idle or in the first part of
\* process(), the loops over m_objects and the alert; what the job-level stages
\* make of m_objects.front() of an emptied m_objects is not followed.
ClearWhileRunning ==
    /\ MutexFree(fg)
    /\ \A w \in Workers : wk[w].pc \in {"idle", "entities", "alert", "alert_body"}
    /\ pstate' = invalidate_all_steps(pstate).p
    /\ ostate' = <<>>
    /\ job' = [job EXCEPT !.objects = <<>>]
    /\ seq' = [seq EXCEPT !.inst = <<>>]
    /\ last' = [op |-> "clear"]
    /\ aborted' = "none"
    /\ wk' = [w \in Workers |-> Disturbed(w)]
    /\ UNCHANGED <<canceled, coll, fg>>

\* An iteration of `for (PrintObject *obj : m_objects) obj->stage()` whose obj
\* was deleted by clear() after the loop was entered: the call is made on a
\* dangling pointer.  The run ends there or goes on to the next iteration.
RunStageOnDestroyed(w) ==
    /\ At(w, "entities")
    /\ wk[w].i <= wk[w].objects_end
    /\ wk[w].i > Len(ostate)
    /\ \/ wk' = [wk EXCEPT ![w] = [Idle EXCEPT !.outcome = "destroyed_object"]]
       \/ wk' = [wk EXCEPT ![w] = [@ EXCEPT !.i = @ + 1, !.outcome = "destroyed_object"]]
    /\ last' = NoCall
    /\ UNCHANGED <<pstate, ostate, canceled, aborted, coll, job, seq, fg>>

\* Print::is_step_done(PrintObjectStep step), first statement:
\* if (m_objects.empty()) return false;  -- the state mutex is not held.
IsStepDoneTest(ostep) ==
    /\ fg.pc = "idle"
    /\ IF Len(ostate) = 0
       THEN /\ last' = [op |-> "is_step_done", arg |-> ostep, ret |-> FALSE, objects |-> 0]
            /\ fg' = fg
       ELSE /\ last' = NoCall
            /\ fg' = [pc |-> "tested", step |-> ostep, ret |-> FALSE]
    /\ UNCHANGED <<pstate, ostate, canceled, wk, aborted, coll, job, seq>>

\* ... the state mutex is taken and the objects are gone through:
\* for (object : m_objects) if (! object->is_step_done_unguarded(step)) return false;
\* return true;  `objects` is the number of objects the loop found.
IsStepDoneRead ==
    /\ fg.pc = "tested"
    /\ last' = [op |-> "is_step_done", arg |-> fg.step,
                ret |-> \A idx \in 1..Len(ostate) : ostate[idx][fg.step] = DONE,
                objects |-> Len(ostate)]
    /\ fg' = FgIdle
    /\ UNCHANGED <<pstate, ostate, canceled, wk, aborted, coll, job, seq>>

\* Print::wipe_tower_data(extruders_cnt), the test:
\* if (! is_step_done(psWipeTower) && extruders_cnt != 0) { ... } return m_wipe_tower_data;
\* is_step_done reads the status under the state mutex and releases it.
WipeTowerDataTest ==
    /\ fg.pc = "idle"
    /\ \E extruders_cnt \in {0, 1} :
           IF pstate[psWipeTower] # DONE /\ extruders_cnt # 0
           THEN fg' = [pc |-> "estimating", step |-> psWipeTower, ret |-> FALSE]
           ELSE fg' = fg
    /\ last' = NoCall
    /\ UNCHANGED <<pstate, ostate, canceled, wk, aborted, coll, job, seq>>

\* ... the body: const_cast<Print*>(this)->m_wipe_tower_data.brim_width = ...;
\* .depth = (maximum/layer_height)/width; .height = -1.f;  No lock is held.
WipeTowerDataWrite ==
    /\ fg.pc = "estimating"
    /\ coll' = [coll EXCEPT !["m_wipe_tower_data"] = ESTIMATE]
    /\ fg' = FgIdle
    /\ last' = [op |-> "wipe_tower_data"]
    /\ UNCHANGED <<pstate, ostate, canceled, wk, aborted, job, seq>>

\* wipe_tower_data() called from the foreground next to a run of the executor.
NextTowerData ==
    \/ WipeTowerDataTest
    \/ WipeTowerDataWrite
    \/ Worker(1)

SpecTowerData == Init /\ [][NextTowerData]_vars

\* clear() and is_step_done() called from the foreground at any moment of a
\* run of the executor.
NextClear ==
    \/ ClearWhileRunning
    \/ \E ostep \in PrintObjectSteps : IsStepDoneTest(ostep)
    \/ IsStepDoneRead
    \/ Worker(1)
    \/ RunStageOnDestroyed(1)

SpecClear == InitStatus /\ [][NextClear]_vars

\* Two executor runs side by side (and their retries after a cancellation).
NextConc == (\E w \in Workers : Worker(w)) \/ Cancel \/ ResetCancel

SpecConc == InitStatus /\ [][NextConc]_vars

-----------------------------------------------------------------------------
(* Properties of the step graph.                                           *)

AllInvalidated ==
    /\ \A s \in PrintSteps : pstate[s] = INVALID
    /\ \A idx \in DOMAIN ostate : \A s \in PrintObjectSteps : ostate[idx][s] = INVALID

AllObjectsDone ==
    /\ Len(ostate) > 0
    /\ \A idx \in DOMAIN ostate : \A s \in PrintObjectSteps : ostate[idx][s] = DONE

\* C1: whatever the statuses were, once Print::invalidate_step(s) has returned
\* for a job-level step s other than the export step, the export step is
\* Invalidated; invalidate_step(psGCodeExport) changes the status of no other
\* job-level step and of no entity-level step.
C1_InvalidateStepCascades ==
    [][last'.op = "invalidate_step" =>
          /\ last'.arg # psGCodeExport => pstate'[psGCodeExport] = INVALID
          /\ last'.arg = psGCodeExport =>
                 /\ \A s \in PrintSteps \ {psGCodeExport} : pstate'[s] = pstate[s]
                 /\ ostate' = ostate]_vars

\* invalidate_step(psWipeTower) has just changed a status while skirt/brim
\* stays Done: the export step went down with the purge tower.
C1_Witness ==
    /\ last.op = "invalidate_step"
    /\ last.arg = psWipeTower
    /\ last.ret
    /\ pstate[psWipeTower] = INVALID
    /\ pstate[psSkirtBrim] = DONE
    /\ pstate[psGCodeExport] = INVALID

\* C2: whenever a batch handed to invalidate_state_by_config_options changes
\* the status of any step, job-level or entity-level, or reports an
\* invalidation, the export step is Invalidated when the call returns.
C2_ConfigCascadesToExport ==
    [][(last'.op = "config" /\ (last'.ret \/ pstate' # pstate \/ ostate' # ostate))
          => pstate'[psGCodeExport] = INVALID]_vars

\* A batch of entity-only keys has acted: an entity lost its curled-extrusion
\* estimate, every job-level step before the export is still Done.
C2_Witness ==
    /\ last.op = "config"
    /\ last.arg = "other"
    /\ last.ret
    /\ pstate[psWipeTower] = DONE
    /\ pstate[psSkirtBrim] = DONE
    /\ pstate[psGCodeExport] = INVALID
    /\ \E idx \in DOMAIN ostate :
           /\ ostate[idx][posEstimateCurledExtrusions] = INVALID
           /\ ostate[idx][posSlice] = DONE

\* C3: after invalidate_state_by_config_options returns from a batch holding a
\* key the classifier does not recognise, every job-level step and every
\* entity-level step of every entity is Invalidated.
C3_UnknownKeyInvalidatesAll ==
    (last.op = "config" /\ last.arg = "unknown") => AllInvalidated

\* C4: a batch holding G-code-only keys alone leaves the export step
\* Invalidated and changes nothing else: purge tower, support alert, skirt/brim
\* and every entity-level step of every entity keep their status.
C4_GcodeOnlyKeysTouchExportOnly ==
    [][(last'.op = "config" /\ last'.arg = "gcode_only") =>
          /\ pstate'[psGCodeExport] = INVALID
          /\ \A s \in PrintSteps \ {psGCodeExport} : pstate'[s] = pstate[s]
          /\ ostate' = ostate]_vars

\* A G-code-only batch has invalidated the export of a fully processed job.
C4_Witness ==
    /\ last.op = "config"
    /\ last.arg = "gcode_only"
    /\ last.ret
    /\ pstate[psWipeTower] = DONE
    /\ pstate[psSkirtBrim] = DONE
    /\ pstate[psGCodeExport] = INVALID
    /\ AllObjectsDone

\* C5: invalidate_step on a step that is Invalidated, with the export step
\* Invalidated, changes no status and returns false; a batch applied a second
\* time right after its first application returns false and changes no status,
\* in every state a batch can be applied in (between two calls of the executor).
C5_InvalidationIdempotent ==
    /\ \A s \in PrintSteps :
           (pstate[s] = INVALID /\ pstate[psGCodeExport] = INVALID)
               => Print_invalidate_step(pstate, s) = [p |-> pstate, changed |-> FALSE]
    /\ AllIdle =>
           \A b \in Batches :
               LET r1 == invalidate_state_by_config_options(pstate, ostate, b)
                   r2 == invalidate_state_by_config_options(r1.p, r1.o, b)
               IN  r2 = [p |-> r1.p, o |-> r1.o, invalidated |-> FALSE]

\* A batch naming skirt/brim has been applied to a job whose skirt/brim is
\* already Invalidated while the purge tower is Done: nothing was reported.
C5_Witness ==
    /\ last.op = "config"
    /\ last.arg = "other"
    /\ ~last.ret
    /\ pstate[psWipeTower] = DONE
    /\ pstate[psSkirtBrim] = INVALID
    /\ pstate[psGCodeExport] = INVALID
    /\ AllObjectsDone

\* C6: from the statuses of any state a batch can be applied in, a batch and
\* the duplicate-free list of its keys in one fixed order give the same
\* job-level statuses, the same entity-level statuses
\* and the same return value; so do any two batches that hold the same keys,
\* whatever their order and their duplicates.
C6_BatchOrderIndependent ==
    AllIdle =>
        \A b \in Batches :
            invalidate_state_by_config_options(pstate, ostate, b)
                = invalidate_state_by_config_options(
                      pstate, ostate, sort_remove_duplicates(b, SampleKeyOrder))

\* A batch has invalidated part of a processed job: the purge tower and the
\* slices went down, skirt/brim and the perimeters on top of them did not.
C6_Witness ==
    /\ last.op = "config"
    /\ last.ret
    /\ pstate[psWipeTower] = INVALID
    /\ pstate[psSkirtBrim] = DONE
    /\ Len(ostate) > 0
    /\ \A idx \in DOMAIN ostate :
           /\ ostate[idx][posSupportMaterial] = INVALID
           /\ ostate[idx][posPerimeters] = DONE

\* C7: Print::is_step_done(step) is true exactly when m_objects is not empty and
\* every PrintObject has the step Done; with no PrintObject it is false for
\* every step.
C7_IsStepDone ==
    \A s \in PrintObjectSteps :
        /\ is_step_done(ostate, s)
               <=> (Len(ostate) >= 1 /\ \A idx \in DOMAIN ostate : ostate[idx][s] = DONE)
        /\ Len(ostate) = 0 => ~is_step_done(ostate, s)

\* Two entities half way through a stage: slicing is done on all of them, infill
\* on the first only.
C7_Witness ==
    /\ Len(ostate) >= 2
    /\ is_step_done(ostate, posSlice)
    /\ ostate[1][posInfill] = DONE
    /\ ~is_step_done(ostate, posInfill)

\* The positions of process() inside the body guarded by set_started(step).
StageBody(step) ==
    CASE step = psAlertWhenSupportsNeeded -> {"alert_body"}
      [] step = psWipeTower ->
             {"wt_body", "wt_ordering", "mwt_begin", "mwt_check", "mwt_plan", "mwt_purge",
              "mwt_end", "wt_done"}
      [] step = psSkirtBrim ->
             {"ms_points", "ms_check", "ms_loop", "ms_end", "sb_brim", "sb_finalize",
              "sb_done"}
      [] step = psGCodeExport -> {"ex_write", "ex_done"}

\* C8: of two executor runs, at most one is inside the body of the purge tower,
\* of skirt/brim or of the support alert at any time.
C8_OneRunPerStage ==
    \A step \in {psWipeTower, psSkirtBrim, psAlertWhenSupportsNeeded} :
        \A w1 \in Workers, w2 \in Workers :
            (wk[w1].pc \in StageBody(step) /\ wk[w2].pc \in StageBody(step)) => w1 = w2

\* The first run plans the tool changes; the second found the purge tower
\* Started, went past it and is inside skirt/brim.
C8_Witness ==
    /\ wk[1].pc = "mwt_plan"
    /\ wk[2].pc = "sb_brim"
    /\ pstate[psWipeTower] = STARTED
    /\ pstate[psSkirtBrim] = STARTED

\* The position of process() at which set_done(step) is called.
StageEnd(step) ==
    CASE step = psWipeTower -> "wt_done"
      [] step = psSkirtBrim -> "sb_done"

\* C9: the purge tower and skirt/brim become Done only at the end of a run of
\* their stage that set_started let in and that went through every sub-phase
\* with neither a cancellation nor a SlicingError raised.
C9_DoneOnlyAfterCompleteRun ==
    [][\A step \in {psWipeTower, psSkirtBrim} :
           (pstate[step] # DONE /\ pstate'[step] = DONE)
               => \E w \in Workers :
                      /\ wk[w].pc = StageEnd(step)
                      /\ wk[w].run = "complete"]_vars

\* Both stages ran to their end under a raised signal that none of their
\* cancellation points was reached with; the export is next.
C9_Witness ==
    /\ wk[1].pc = "ex_start"
    /\ canceled
    /\ pstate[psWipeTower] = DONE
    /\ pstate[psSkirtBrim] = DONE

\* C10: when a stage was left by a cancellation and the executor is then called
\* again and returns with no further cancellation, the step of that stage is
\* Done.
C10_RetryCompletesAbortedStage ==
    (wk[1].pc = "idle" /\ wk[1].outcome = "finished" /\ aborted \in PrintSteps)
        => pstate[aborted] = DONE

\* The collections of `names` hold nothing an earlier run left behind.
NothingStale(names) == \A n \in names : coll[n] # STALE

EntersStage(w, step) ==
    wk[w].pc \notin StageBody(step) /\ wk'[w].pc \in StageBody(step)

\* C12: in every run the job-level stages come in the order purge-tower
\* planning, skirt/brim, export; the skirt/brim stage starts only while the
\* purge-tower step is Done; a stage whose step is Done is passed over with
\* its result collections untouched.
C12_StagesInOrder ==
    [][\A w \in Workers :
          /\ EntersStage(w, psWipeTower) => At(w, "wt_start")
          /\ EntersStage(w, psSkirtBrim) => At(w, "sb_start")
          /\ EntersStage(w, psGCodeExport) => At(w, "ex_start")
          /\ (~At(w, "sb_start") /\ wk'[w].pc = "sb_start") =>
                 wk[w].pc \in {"wt_start", "wt_done"}
          /\ (~At(w, "ex_start") /\ wk'[w].pc = "ex_start") =>
                 wk[w].pc \in {"sb_start", "sb_done"}
          /\ EntersStage(w, psSkirtBrim) => pstate[psWipeTower] = DONE
          /\ (At(w, "wt_start") /\ pstate[psWipeTower] = DONE /\ ~wk'[w].pc = "wt_start") =>
                 wk'[w].pc = "sb_start" /\ coll' = coll
          /\ (At(w, "sb_start") /\ pstate[psSkirtBrim] = DONE /\ ~wk'[w].pc = "sb_start") =>
                 wk'[w].pc = "ex_start" /\ coll' = coll
      ]_vars

InvalidatedInFlight(w, step) ==
    wk[w].pc \in StageBody(step) /\ pstate[step] = INVALID

\* C14: a job-level step invalidated by the foreground between the worker's
\* set_started and set_done is not Done when the worker leaves the stage.
C14_InvalidationNotLost ==
    [][\A w \in Workers : \A step \in PrintSteps :
          (InvalidatedInFlight(w, step) /\ wk'[w].pc \notin StageBody(step)) =>
              pstate'[step] # DONE
      ]_vars

-----------------------------------------------------------------------------
(* Properties of validate().                                               *)

\* C15: validate returns the zero-entity message for every job without
\* entities, whatever else is wrong with it, and the no-extruder message for
\* every job with entities in which no extruder is used.
C15_EmptyPrintRejected ==
    last.op = "validate" =>
        /\ job.objects = <<>> => last.ret = "no_objects"
        /\ (job.objects # <<>> /\ job.extruders = <<>>) => last.ret = "no_extruders"
        /\ (job.objects = <<>> \/ job.extruders = <<>>) => last.ret # NoMessage

\* A job without entities and without extruders that also combines the two
\* path-avoidance options was validated.
C15_Witness ==
    /\ last.op = "validate"
    /\ job.objects = <<>>
    /\ job.extruders = <<>>
    /\ job.avoid_crossing_perimeters /\ job.avoid_crossing_curled_overhangs
    /\ last.ret = "no_objects"

\* The checks of the list 1..10 a job violates, each with its message, the
\* number of the check in the list and the entity it was found on (0 for the
\* checks of the whole job); `at` is the place of the check in validate().
\* Checks the list does not name have the number 0.
PrintViolations(j, s) ==
    LET some(m, c, at) == IF m # NoMessage
                          THEN {[msg |-> m, check |-> c, obj |-> 0, at |-> at]}
                          ELSE {}
    IN  some(EmptyPrintMessage(j), 1, 1)
        \cup (IF EmptyPrintMessage(j) # NoMessage THEN {}
              ELSE some(SequentialMessage(j, s), 2, 2)
                   \cup some(SpiralVaseMessage(j), 4, 4)
                   \cup some(WipeTowerMessage(j), 7, 8))
        \cup some(IF j.avoid_crossing_perimeters /\ j.avoid_crossing_curled_overhangs
                  THEN "avoid_crossing_conflict" ELSE NoMessage, 3, 3)
        \cup some(IF j.machine_limits_usage = "emit_to_gcode" /\ j.gcode_flavor = "klipper"
                  THEN "machine_limits_klipper" ELSE NoMessage, 0, 5)
        \cup some(CustomGCodeMessage(j), 10, 10)

ObjectViolations(j, i) ==
    LET o == j.objects[i]
        some(m, c, at) == IF m # NoMessage
                          THEN {[msg |-> m, check |-> c, obj |-> i, at |-> at]}
                          ELSE {}
    IN  some(BuildHeightMessage(j, o), 5, 6)
        \cup some(OrganicLayeringMessage(j, o), 6, 7)
        \cup some(SupportNozzleMessage(j, o), 8, 91)
        \cup some(WipeTowerSupportMessage(j, o), 0, 92)
        \cup some(LayerHeightMessage(j, o), 0, 93)
        \cup some(ObjectWidthsMessage(j, o), 9, 94)

Violations(j, s) ==
    PrintViolations(j, s)
    \cup (IF EmptyPrintMessage(j) # NoMessage THEN {}
          ELSE UNION {ObjectViolations(j, i) : i \in DOMAIN j.objects})

\* u comes before v in validate(): the checks of the whole job and the two
\* loops over the entities that precede the wipe tower come in the order of
\* the text; the last loop runs all of its checks on one entity before it
\* turns to the next.
Precedes(u, v) ==
    LET block(w) == IF w.at > 90 THEN 9 ELSE w.at
    IN  IF block(u) # block(v) THEN block(u) < block(v)
        ELSE IF u.obj # v.obj THEN u.obj < v.obj
        ELSE u.at < v.at

\* u comes before v in the list 1..10 of the checks.
PrecedesInList(u, v) == u.check < v.check

\* C16: the message returned for a job that violates several checks of the
\* list is that of the violated check that comes first in the list 1..10.
C16_FirstListedCheckReported ==
    last.op = "validate" =>
        LET V == Violations(job, seq)
        IN  (V # {} /\ \A v \in V : v.check # 0) =>
                \E v \in V : /\ v.msg = last.ret
                              /\ \A u \in V : ~PrecedesInList(u, v)

\* C16, amended: the message returned is that of the violated check validate()
\* reaches first: the checks 1 to 7 in the order of the list, then entity by
\* entity the checks 8 and 9 of that entity, then check 10; a valid job gets
\* the empty message.
C16_FirstCheckInCodeOrderReported ==
    last.op = "validate" =>
        LET V == Violations(job, seq)
        IN  IF V = {} THEN last.ret = NoMessage
            ELSE \E v \in V : /\ v.msg = last.ret
                               /\ \A u \in V \ {v} : Precedes(v, u)

\* A job whose first entity has an extrusion width that is too low and whose
\* second entity violates the nozzle-diameter consistency check was validated.
C16_Witness ==
    /\ last.op = "validate"
    /\ Len(job.objects) = 2
    /\ job.extruders # <<>>
    /\ ObjectWidthsMessage(job, job.objects[1]) # NoMessage
    /\ SupportNozzleMessage(job, job.objects[2]) # NoMessage
    /\ last.ret = "extrusion_width_too_low"

\* C17: a call of validate leaves every status, every entity, the
\* configuration, the collections and the executor as they were, and hands
\* back a message (empty for a valid job) as a value.
C17_ValidateIsPure ==
    [][last'.op = "validate" =>
          /\ UNCHANGED <<pstate, ostate, canceled, wk, aborted, coll, job, seq, fg>>
          /\ last'.ret = validate(job, seq)
      ]_vars

\* validate reported a failure while the purge-tower step was Started and the
\* skirt/brim step Invalidated, with results of an earlier run in place.
C17_Witness ==
    /\ last.op = "validate"
    /\ last.ret # NoMessage
    /\ pstate[psWipeTower] = STARTED
    /\ pstate[psSkirtBrim] = INVALID
    /\ coll["m_skirt"] = FRESH

-----------------------------------------------------------------------------
(* Properties of the clearance checks.                                     *)

\* The distance of the positions of the instances u and v, and the width of
\* the gap between their footprints (negative when they overlap).
Distance(s, u, v) == Abs(s.inst[u].x - s.inst[v].x)
Gap(s, u, v) == Distance(s, u, v) - (s.inst[u].a + s.inst[v].a)

Colliding(s) ==
    {k \in DOMAIN s.inst :
        \E i \in DOMAIN s.inst \ {k} : Intersecting(ExpandedHull(s, i), ExpandedHull(s, k))}

\* C19: the horizontal check returns false exactly when two expanded hulls
\* intersect, with and without an output vector; a given output vector holds
\* afterwards the expanded hull of every instance of an intersecting pair,
\* once each, and nothing else.
C19_HorizontalCheck ==
    last.op = "horizontal" =>
        /\ last.valid <=> Colliding(seq) = {}
        /\ last.valid = sequential_print_horizontal_clearance_valid(seq, FALSE, <<>>).valid
        /\ last.diagnostic =>
               /\ {last.polygons[n].inst : n \in DOMAIN last.polygons} = Colliding(seq)
               /\ Len(last.polygons) = Cardinality(Colliding(seq))
               /\ \A n \in DOMAIN last.polygons :
                      last.polygons[n].hull = ExpandedHull(seq, last.polygons[n].inst)

\* The first of three instances collides with both others; the output vector
\* was given and holds three hulls.
C19_Witness ==
    /\ last.op = "horizontal"
    /\ last.diagnostic
    /\ Len(seq.inst) = 3
    /\ Intersecting(ExpandedHull(seq, 1), ExpandedHull(seq, 2))
    /\ Intersecting(ExpandedHull(seq, 1), ExpandedHull(seq, 3))
    /\ ~Intersecting(ExpandedHull(seq, 2), ExpandedHull(seq, 3))
    /\ Len(last.polygons) = 3

\* The instance printed last.
LastPrinted(s) == CHOOSE k \in DOMAIN s.inst : \A m \in DOMAIN s.inst : s.inst[m].ord <= s.inst[k].ord

\* C20: the vertical check fails exactly when an instance other than the one
\* printed last is higher than the clearance height; a single instance passes.
C20_VerticalCheck ==
    last.op = "vertical" =>
        /\ ~last.valid <=>
               \E k \in DOMAIN seq.inst \ {LastPrinted(seq)} : seq.inst[k].h > seq.height
        /\ Len(seq.inst) = 1 => last.valid

\* The instance printed last is too high and was placed first; the check passed.
C20_Witness ==
    /\ last.op = "vertical"
    /\ Len(seq.inst) = 3
    /\ LastPrinted(seq) = 1
    /\ seq.inst[1].h > seq.height
    /\ last.valid

-----------------------------------------------------------------------------
(* The skirt.                                                              *)

\* C21: when the skirt generation is handed fewer than three points it appends
\* no loop, records no skirt hull and raises no error, and the skirt/brim step
\* becomes Done in that run.
C21_FewPointsNoSkirt ==
    /\ [](\A w \in Workers : wk[w].few =>
             /\ coll["m_skirt"] = EMPTY
             /\ coll["m_skirt_convex_hull"] = EMPTY
             /\ wk[w].pc \in {"sb_brim", "sb_finalize", "sb_done"}
             /\ wk[w].run \in {"running", "complete"})
    /\ (wk[1].few ~> (wk[1].pc = "ex_start" /\ pstate[psSkirtBrim] = DONE))

\* The skirt generation returned for want of points after the brim was made;
\* the stage is about to be marked Done with no skirt and no skirt hull.
C21_Witness ==
    /\ wk[1].few
    /\ wk[1].pc = "sb_done"
    /\ ~wk[1].ds
    /\ coll["m_brim"] = FRESH
    /\ coll["m_skirt"] = EMPTY
    /\ coll["m_skirt_convex_hull"] = EMPTY

\* The least number of loops of length l that extrude at least the length L.
Ceil(L, l) == (L + l - 1) \div l

\* The worker is in the skirt loop of _make_skirt() or has just left it.
InSkirtLoop(w) == wk[w].pc \in {"ms_loop", "ms_end"}

\* C22: with a positive minimum skirt length L, whatever the nominal number of
\* loops, an extruder whose loops extrude l > 0 each has exactly ceil(L / l)
\* loops accounted to it when the generation advances to the next extruder, and
\* the loop does not end on an extruder it has started with fewer than that.
C22_LoopsBeforeAdvance ==
    \A w \in Workers :
        (InSkirtLoop(w) /\ job.min_skirt_length > 0) =>
            LET idx == wk[w].extruder_idx
            IN  /\ \A e \in 1..(idx - 1) :
                       /\ LoopLength(e) > 0
                       /\ wk[w].emitted[e] = Ceil(job.min_skirt_length, LoopLength(e))
                /\ (wk[w].pc = "ms_end" /\ ~wk[w].vanished /\ LoopLength(idx) > 0) =>
                       \/ wk[w].emitted[idx] = 0
                       \/ wk[w].emitted[idx] >= Ceil(job.min_skirt_length, LoopLength(idx))

\* Three loops of length 1 were drawn for the minimum length 3, more than any
\* nominal count of the model, before the second extruder took over.
C22_Witness ==
    /\ wk[1].pc = "ms_loop"
    /\ job.min_skirt_length = 3
    /\ LoopLength(1) = 1
    /\ wk[1].extruder_idx = 2
    /\ wk[1].emitted[1] = 3

\* C26: the skirt loop terminates for every input, a loop of no length under a
\* positive minimum skirt length included: a worker that is in the loop leaves it.
C26_SkirtLoopTerminates ==
    (wk[1].pc = "ms_loop") ~> (wk[1].pc # "ms_loop")

\* C27: with a positive minimum skirt length, when the skirt loop ends with no
\* offset vanished and no cancellation, every extruder of the list has an
\* accounted extruded length of at least the minimum.
C27_EveryExtruderReachesMinimum ==
    \A w \in Workers :
        (wk[w].pc = "ms_end" /\ ~wk[w].vanished /\ job.min_skirt_length > 0) =>
            \A e \in SkirtExtruders : wk[w].extruded_length[e] >= job.min_skirt_length

-----------------------------------------------------------------------------
(* The purge tower.                                                        *)

\* The tool changes requested of the WipeTower so far.
PlannedChanges(w) ==
    UNION {{wk[w].plan[n].tool_changes[c] : c \in DOMAIN wk[w].plan[n].tool_changes} :
           n \in DOMAIN wk[w].plan}

\* C23: every tool change planned for a switch to an extruder carries a purge
\* volume of at least the forced purge of that extruder, whatever the
\* purge-volume matrix and whatever the wiping extrusions absorb.
C23_VolumeNotBelowFloor ==
    \A w \in Workers : \A c \in PlannedChanges(w) :
        c.volume >= job.filament_minimal_purge_on_wipe_tower[c.to]

\* The matrix asks for more than the forced purge and the wiping extrusions
\* absorbed all of the rest: the change is planned with the forced purge alone.
C23_Witness ==
    /\ job.filament_minimal_purge_on_wipe_tower[1] = 1
    /\ \E c \in PlannedChanges(1) :
           /\ c.from = 2 /\ c.to = 1
           /\ job.wipe_volumes[c.from][c.to] = 2
           /\ c.volume = 1

\* C28: a tool change is planned for an extruder of a layer if and only if the
\* extruder differs from the current one, so that no planned change goes from
\* an extruder to itself.
C28_NoChangeToSameExtruder ==
    \A w \in Workers : \A c \in PlannedChanges(w) : c.from # c.to

\* The pairs (from, to) of the tool changes of one layer of the plan.
Switches(entry) ==
    [n \in DOMAIN entry.tool_changes |->
        <<entry.tool_changes[n].from, entry.tool_changes[n].to>>]

\* The pairs to be planned for the extruders of a layer entered with the
\* extruder `current`: the extruder before position k is the one of position
\* k - 1, and a change is due when the extruder differs from it or, on the
\* first layer of the ordering, is the last one of the priming order.
DueSwitches(extruders, first_layer, current) ==
    LET Before(k) == IF k = 1 THEN current ELSE extruders[k - 1]
        Due(k) == \/ extruders[k] # Before(k)
                  \/ first_layer /\ extruders[k] = all_extruders_back
        due == SelectSeq([k \in DOMAIN extruders |-> k], Due)
    IN  [n \in DOMAIN due |-> <<Before(due[n]), extruders[due[n]]>>]

\* C28 (amended): the tool changes planned for a tower layer are those of its
\* extruders that differ from the current extruder at that moment or that, on
\* the first layer of the tool ordering, are the last extruder of the priming
\* order; a change from an extruder to itself is planned on that first layer only.
C28_ChangeWhenDifferingOrPrimed ==
    [][\A w \in Workers :
          (wk[w].pc = "mwt_plan" /\ Len(wk'[w].plan) > Len(wk[w].plan)) =>
              LET k     == wk[w].layer
                  entry == wk'[w].plan[Len(wk'[w].plan)]
              IN  /\ Switches(entry) =
                         DueSwitches(layer_tools[k].extruders, k = 1,
                                     wk[w].current_extruder_id)
                  /\ \A n \in DOMAIN entry.tool_changes :
                         entry.tool_changes[n].from = entry.tool_changes[n].to =>
                             k = 1 /\ entry.tool_changes[n].to = all_extruders_back]_vars

\* On the first layer the last extruder of the priming order was current and a
\* change to it was planned all the same; on the next layer the extruder in use
\* was met again and no change was planned.
C28_Witness ==
    /\ Len(wk[1].plan) = 2
    /\ Len(wk[1].plan[1].tool_changes) = 1
    /\ wk[1].plan[1].tool_changes[1].from = 1
    /\ wk[1].plan[1].tool_changes[1].to = 1
    /\ layer_tools[2].extruders = <<1>>
    /\ wk[1].plan[2].tool_changes = <<>>

\* The tool changes of a plan in the order they were requested, layer by layer.
RECURSIVE ChangesInOrder(_)
ChangesInOrder(plan) ==
    IF plan = <<>> THEN <<>>
    ELSE ChangesInOrder(SubSeq(plan, 1, Len(plan) - 1)) \o plan[Len(plan)].tool_changes

\* C38: the planned tool changes form a chain: the first one leaves from the
\* last extruder of the priming order and every later one from the extruder
\* the change before it went to, whether the two are planned for the same
\* layer or for different ones and whatever layers without the tower lie between.
C38_ToolChangesChain ==
    \A w \in Workers :
        LET cs == ChangesInOrder(wk[w].plan)
        IN  \A n \in DOMAIN cs :
                cs[n].from = IF n = 1 THEN all_extruders_back ELSE cs[n - 1].to

\* Tool changes were planned on two layers, two of them on the first; the
\* first change of the second layer leaves from where the first layer ended.
C38_Witness ==
    /\ Len(wk[1].plan) = 2
    /\ Len(wk[1].plan[1].tool_changes) = 2
    /\ Len(wk[1].plan[2].tool_changes) >= 1
    /\ wk[1].plan[2].tool_changes[1].from = wk[1].plan[1].tool_changes[2].to
    /\ wk[1].plan[1].tool_changes[1].from = all_extruders_back

\* The first tower layer that is the last layer of the ordering or whose
\* successor requires no tower partition; the last layer when there is none.
StopLayer ==
    LET stops == {k \in DOMAIN layer_tools :
                     /\ layer_tools[k].has_wipe_tower
                     /\ k = Len(layer_tools) \/ layer_tools[k + 1].wipe_tower_partitions = 0}
    IN  IF stops = {} THEN Len(layer_tools)
        ELSE CHOOSE k \in stops : \A m \in stops : k <= m

\* The heights of the tower layers among the first n layers of the ordering.
TowerLayersUpTo(n) ==
    LET HasTower(lt) == lt.has_wipe_tower
        tower == SelectSeq(SubSeq(layer_tools, 1, n), HasTower)
    IN  [m \in DOMAIN tower |-> tower[m].print_z]

\* C29: planning stops behind the first tower layer it visits whose successor
\* requires no tower partition (or that is the last layer); the layers without
\* the tower before it are passed over and do not end the planning.
C29_StopsBehindLastNeededLayer ==
    \A w \in Workers :
        /\ wk[w].pc = "mwt_plan" => wk[w].layer <= StopLayer
        /\ wk[w].pc \in {"mwt_purge", "mwt_end"} =>
               [n \in DOMAIN wk[w].plan |-> wk[w].plan[n].z] = TowerLayersUpTo(StopLayer)

\* The first layer has no tower and its successor requires no partition: it was
\* passed over, the second layer was planned and ended the planning.
C29_Witness ==
    /\ wk[1].pc = "mwt_purge"
    /\ Len(layer_tools) = 2
    /\ ~layer_tools[1].has_wipe_tower
    /\ layer_tools[2].has_wipe_tower
    /\ layer_tools[2].wipe_tower_partitions = 0
    /\ Len(wk[1].plan) = 1
    /\ wk[1].plan[1].z = layer_tools[2].print_z

\* The topmost layer of the tool ordering.
TopLayer == layer_tools[Len(layer_tools)]

\* C30: a planning run schedules exactly one final purge: one layer height
\* above the topmost layer of the model when the tower ends on that layer,
\* otherwise at the height of the last tower layer.
C30_FinalPurgeAboveTopOrAtTower ==
    \A w \in Workers :
        wk[w].pc = "mwt_end" =>
            wk[w].final_purge =
                <<IF TowerHeight(wk[w].plan) = TopLayer.print_z
                  THEN TopLayer.print_z + job.objects[1].layer_height
                  ELSE TowerHeight(wk[w].plan)>>

\* C30 (amended): a planning run that generates the tower schedules exactly one
\* final purge, and none before the tower is generated.  When the topmost layer
\* of the model requires tower partitions the purge is one layer height above
\* that layer or, the tower having room left, on the layer the tower stands at;
\* when it requires none the purge is at the height of the topmost layer of the
\* model.
C30_FinalPurgeHeight ==
    \A w \in Workers :
        /\ wk[w].pc \in {"mwt_check", "mwt_plan", "mwt_purge"} => wk[w].final_purge = <<>>
        /\ wk[w].pc = "mwt_end" =>
               /\ Len(wk[w].final_purge) = 1
               /\ TopLayer.wipe_tower_partitions > 0 =>
                      wk[w].final_purge[1] \in
                          {TopLayer.print_z + job.objects[1].layer_height,
                           TowerHeight(wk[w].plan)}
               /\ TopLayer.wipe_tower_partitions = 0 =>
                      wk[w].final_purge[1] = TopLayer.print_z

\* The tower ends on the first layer, the model on the second, which requires
\* no partition: the final purge is scheduled at the height of the second layer.
C30_Witness ==
    /\ wk[1].pc = "mwt_end"
    /\ Len(layer_tools) = 2
    /\ TopLayer.wipe_tower_partitions = 0
    /\ TowerHeight(wk[1].plan) = layer_tools[1].print_z
    /\ wk[1].final_purge = <<layer_tools[2].print_z>>

\* C24: when the tool ordering built for a print without purge tower is empty
\* or has no last extruder, the error leaves the purge-tower step not Done,
\* keeps skirt/brim from starting in that run and ends the run at once with the
\* error handed to the caller; the stage is never completed over an empty ordering.
C24_EmptyOrderingAborts ==
    /\ [](\A w \in Workers : wk[w].pc = "wt_done" => wk[w].run = "complete")
    /\ [][\A w \in Workers :
              (wk[w].pc = "wt_ordering" /\ wk'[w].pc \notin {"wt_ordering", "wt_done"}) =>
                  /\ wk'[w] = [Idle EXCEPT !.outcome = "error"]
                  /\ pstate'[psWipeTower] = pstate[psWipeTower]
                  /\ pstate'[psWipeTower] # DONE
                  /\ pstate'[psSkirtBrim] = pstate[psSkirtBrim]]_vars

\* The run ended with the error: the purge-tower step is left Started and
\* skirt/brim was never started.
C24_Witness ==
    /\ wk[1] = [Idle EXCEPT !.outcome = "error"]
    /\ last = NoCall
    /\ pstate[psWipeTower] = STARTED
    /\ pstate[psSkirtBrim] = INVALID

\* C25: the cancellation signal is polled before the skirt hull is computed,
\* before each skirt loop and for each layer of the purge planning: with the
\* signal raised the hull is not computed, no further skirt loop is appended
\* and, a layer having been planned, no further layer is planned.
C25_CancellationStopsFurtherWork ==
    [][\A w \in Workers :
          (canceled /\ wk'[w] # wk[w]) =>
              /\ wk[w].pc = "ms_check" => wk'[w].pc = "idle"
              /\ (wk[w].pc = "ms_loop" /\ wk[w].loops > 0) => wk'[w].pc = "idle"
              /\ (wk[w].pc = "mwt_plan" /\ wk[w].plan # <<>>) =>
                     Len(wk'[w].plan) = Len(wk[w].plan)]_vars

-----------------------------------------------------------------------------
(* Single checks of validate().                                            *)

\* C31: in Spiral Vase mode validate() fails whenever more than one copy is
\* printed without sequential printing, and whenever any object of the job has
\* more than one region; with sequential printing a job of several copies
\* passes only if every object has a single region.
C31_SpiralVaseSingleCopySingleRegion ==
    (last.op = "validate" /\ job.spiral_vase /\ job.objects # <<>>
        /\ SequentialMessage(job, seq) = NoMessage) =>
        /\ (SumCopies(job.objects, 1) > 1 /\ ~job.complete_objects) =>
               last.ret = "spiral_vase_copies"
        /\ (\E i \in DOMAIN job.objects : job.objects[i].regions > 1) =>
               last.ret # NoMessage

\* C37: whenever validate() gets to the single-material test of Spiral Vase the
\* job has exactly one object: the assertion m_objects.size() == 1 never fails.
C37_SpiralVaseAssertionHolds ==
    last.op = "validate" =>
        /\ last.ret # "assertion_failed"
        /\ ReachesSpiralVaseRegions(job, seq) => SpiralVaseAssertion(job)

\* An object with every extrusion width left to be generated.
AutoWidths(o) ==
    [o EXCEPT !.extrusion_width = 0, !.support_material_extrusion_width = 0,
              !.region_extrusion_width = 0]

\* validate() gets to the extrusion widths of the first object and nothing
\* else is wrong with the job.
WidthsChecked(j, s) ==
    /\ Len(j.objects) = 1
    /\ validate([j EXCEPT !.objects = <<AutoWidths(j.objects[1])>>], s) = NoMessage

\* The widths of an object that validate() checks.
CheckedWidths(o) ==
    {o.extrusion_width, o.region_extrusion_width}
        \cup (IF has_support_material(o) THEN {o.support_material_extrusion_width} ELSE {})

\* C32 as stated: zero is accepted, a non-zero width up to the layer height is
\* rejected, a width above three nozzle diameters is rejected and a width of
\* exactly three nozzle diameters is accepted.
C32_ThreeNozzlesAccepted ==
    (last.op = "validate" /\ WidthsChecked(job, seq)) =>
        LET o == job.objects[1]
            limit == 3 * max_nozzle_diameter(job)
        IN  /\ (\E w \in CheckedWidths(o) : (w # 0 /\ w <= o.layer_height) \/ w > limit)
                   => last.ret # NoMessage
            /\ (\A w \in CheckedWidths(o) : w = 0 \/ (w > o.layer_height /\ w <= limit))
                   => last.ret = NoMessage

\* C32 amended: zero is accepted, a non-zero width up to the layer height is
\* rejected as too low, and a width of three nozzle diameters or more is
\* rejected too; the widths in between are accepted.
C32_ThreeNozzlesRejected ==
    (last.op = "validate" /\ WidthsChecked(job, seq)) =>
        LET o == job.objects[1]
            limit == 3 * max_nozzle_diameter(job)
        IN  /\ (\E w \in CheckedWidths(o) : (w # 0 /\ w <= o.layer_height) \/ w >= limit)
                   => last.ret \in {"extrusion_width_too_low", "extrusion_width_excessive"}
            /\ (\A w \in CheckedWidths(o) : w = 0 \/ (w > o.layer_height /\ w < limit))
                   => last.ret = NoMessage
            /\ (o.region_extrusion_width = 0 /\ o.extrusion_width # 0
                    /\ o.extrusion_width <= o.layer_height)
                   => last.ret = "extrusion_width_too_low"
            /\ (o.region_extrusion_width = 0 /\ o.extrusion_width >= limit)
                   => last.ret = "extrusion_width_excessive"

\* A width of exactly three nozzle diameters, above the layer height, was
\* checked and rejected.
C32_Witness ==
    /\ last.op = "validate"
    /\ WidthsChecked(job, seq)
    /\ job.objects[1].extrusion_width = 3 * max_nozzle_diameter(job)
    /\ job.objects[1].region_extrusion_width = 0
    /\ last.ret = "extrusion_width_excessive"

\* An object whose last two layers are those of ValidObject.
LowLayers(o) == [o EXCEPT !.layers = ValidObject.layers]

\* validate() gets to the build height of the objects and nothing else is
\* wrong with the job.
HeightsChecked(j, s) ==
    /\ j.objects # <<>>
    /\ validate([j EXCEPT !.objects = [i \in DOMAIN j.objects |-> LowLayers(j.objects[i])]], s)
           = NoMessage

\* validate() returned, with a message or without: it was not stopped by the
\* assertion of the Spiral Vase check before it got to the later checks.
ValidateReturned == last.op = "validate" /\ last.ret # "assertion_failed"

\* The top of the last layer of an object is above the maximum print height.
TooTall(j, o) == o.layers[Len(o.layers)] > j.max_print_height

\* The middle of the last layer of an object, its slicing plane, is above the
\* maximum print height (twice the middle is compared, to stay in integers).
MidpointAbove(j, o) ==
    o.layers[Len(o.layers) - 1] + o.layers[Len(o.layers)] > 2 * j.max_print_height

\* The first object in job order that is too tall, 0 if there is none.
FirstTooTall(j) ==
    IF \E i \in DOMAIN j.objects : TooTall(j, j.objects[i])
    THEN CHOOSE i \in DOMAIN j.objects :
             /\ TooTall(j, j.objects[i])
             /\ \A k \in 1..(i - 1) : ~TooTall(j, j.objects[k])
    ELSE 0

\* C33 as stated: the check fails exactly if some object is too tall; the
\* first such object gets the "fits, but its last layer exceeds" message if
\* the midpoint of its last layer is above the maximum, and the "object
\* exceeds" message otherwise.
C33_LastLayerMessageWhenMidpointAbove ==
    (ValidateReturned /\ HeightsChecked(job, seq)) =>
        LET i == FirstTooTall(job)
        IN  IF i = 0 THEN last.ret = NoMessage
            ELSE IF MidpointAbove(job, job.objects[i])
                 THEN last.ret = "last_layer_exceeds_build_height"
                 ELSE last.ret = "exceeds_build_height"

\* C33 amended: the check fails exactly if some object is too tall; the first
\* such object gets the "object exceeds" message if the midpoint of its last
\* layer is above the maximum, and the "fits, but its last layer exceeds"
\* message otherwise.
C33_ObjectMessageWhenMidpointAbove ==
    (ValidateReturned /\ HeightsChecked(job, seq)) =>
        LET i == FirstTooTall(job)
        IN  IF i = 0 THEN last.ret = NoMessage
            ELSE IF MidpointAbove(job, job.objects[i])
                 THEN last.ret = "exceeds_build_height"
                 ELSE last.ret = "last_layer_exceeds_build_height"

\* Two objects are too tall, the first with the midpoint of its last layer
\* within the build volume and the second with it above; the message is the
\* first object's.
C33_Witness ==
    /\ last.op = "validate"
    /\ HeightsChecked(job, seq)
    /\ Len(job.objects) = 2
    /\ TooTall(job, job.objects[1]) /\ ~MidpointAbove(job, job.objects[1])
    /\ TooTall(job, job.objects[2]) /\ MidpointAbove(job, job.objects[2])
    /\ last.ret = "last_layer_exceeds_build_height"

-----------------------------------------------------------------------------
(* The order of the stages within one run of process().                    *)

\* The entity-level steps in the order the claim gives the stages.
StageOrder ==
    <<{posSlice, posPerimeters}, {posInfill}, {posIroning}, {posSupportSpotsSearch},
      {posSupportMaterial}, {posEstimateCurledExtrusions}>>

\* The object o has completed the stages K.
StagesDone(o, K) == \A k \in K : \A s \in StageOrder[k] : ostate[o][s] = DONE

\* The positions of process() behind the loops over m_objects, and those of
\* alert_when_supports_needed().
AlertPositions == {"alert", "alert_body"}
EntityPositions == {"idle", "entities"} \cup AlertPositions

\* C39: within one run of process() the entity-level stages are barriers, in the
\* order perimeters, infill, ironing, support spots, support material, curled
\* extrusions: while stage k is at object i, every object has completed the
\* stages before k and the objects before i stage k; the alert is raised with
\* the support spots of every object done and is the only way into the
\* support material; a job-level stage is only entered from the end of the last
\* loop, with every stage of every object completed.
C39_StagesAreBarriers ==
    /\ [](\A w \in Workers :
            /\ wk[w].pc = "entities" =>
                   /\ \A o \in DOMAIN ostate : StagesDone(o, 1..(wk[w].k - 1))
                   /\ \A o \in 1..(wk[w].i - 1) : StagesDone(o, {wk[w].k})
            /\ wk[w].pc \in AlertPositions => \A o \in DOMAIN ostate : StagesDone(o, 1..4)
            /\ wk[w].pc \notin EntityPositions => \A o \in DOMAIN ostate : StagesDone(o, 1..6))
    /\ [][\A w \in Workers :
            /\ (wk[w].pc = "entities" /\ wk'[w].pc = "entities" /\ wk'[w].k # wk[w].k) =>
                   wk[w].i > Len(ostate) /\ wk'[w].k = wk[w].k + 1 /\ wk'[w].i = 1 /\ wk[w].k # 4
            /\ (wk[w].pc = "entities" /\ wk'[w].pc = "entities" /\ wk'[w].i # wk[w].i
                    /\ wk'[w].k = wk[w].k) =>
                   /\ wk'[w].i = wk[w].i + 1
                   /\ \A s \in StageOrder[wk[w].k] : ostate'[wk[w].i][s] = DONE
            /\ (wk[w].pc \notin AlertPositions /\ wk'[w].pc \in AlertPositions) =>
                   wk[w].pc = "entities" /\ wk[w].k = 4 /\ wk[w].i > Len(ostate)
            /\ (wk[w].pc # "entities" /\ wk'[w].pc = "entities") =>
                   \/ wk[w].pc = "idle" /\ wk'[w].k = 1 /\ wk'[w].i = 1
                   \/ wk[w].pc \in AlertPositions /\ wk'[w].k = 5 /\ wk'[w].i = 1
            /\ (wk[w].pc \in EntityPositions /\ wk'[w].pc \notin EntityPositions) =>
                   wk[w].pc = "entities" /\ wk[w].k = 6 /\ wk[w].i > Len(ostate)]_vars

\* The run is in the loop of the support material at the second of two objects:
\* the first has its supports, the second not yet, and both have their support spots.
C39_Witness ==
    /\ Len(ostate) = 2
    /\ wk[1].pc = "entities" /\ wk[1].k = 5 /\ wk[1].i = 2
    /\ ostate[1][posSupportMaterial] = DONE
    /\ ostate[2][posSupportMaterial] # DONE
    /\ ostate[2][posSupportSpotsSearch] = DONE
    /\ pstate[psAlertWhenSupportsNeeded] = DONE

-----------------------------------------------------------------------------
(* Skirt/brim and the purge tower it is laid around.                       *)

\* C34: whatever batches of configuration keys are applied between the runs of
\* the executor, skirt/brim is Done only while the purge-tower planning is
\* Done: a key that invalidates the planning invalidates skirt/brim with it.
C34_SkirtDoneOnlyWithTowerDone ==
    pstate[psSkirtBrim] = DONE => pstate[psWipeTower] = DONE

-----------------------------------------------------------------------------
(* clear() next to is_step_done() and to a run of the executor.            *)

\* C35: is_step_done(step) on the objects never returns true for a job that has
\* no object when the statuses are read, however the call is interleaved with
\* clear().
C35_NeverDoneWithoutObjects ==
    (last.op = "is_step_done" /\ last.objects = 0) => ~last.ret

-----------------------------------------------------------------------------
(* wipe_tower_data() next to the purge-tower stage.                        *)

\* C36: however wipe_tower_data() is interleaved with the purge-tower stage,
\* once the step is Done the depth, brim width and height of m_wipe_tower_data
\* are not the estimate of the query: it never replaces what the run stored.
C36_EstimateNeverReplacesPlan ==
    pstate[psWipeTower] = DONE => coll["m_wipe_tower_data"] # ESTIMATE

====
